---- MODULE Spec2Model ----
(***************************************************************************)
(* Diamond actions (kinds 4, 5, 6) and diamond system lending (kinds 15,   *)
(* 16) of hacash/core, as a state machine over the chain state the actions *)
(* read and write through interfaces.ChainStateOperation.                  *)
(*                                                                         *)
(* Amounts (fields.Amount) are exact values counted in units of 10^244,    *)
(* one ten-thousandth of a HAC ("mei" is unit 248, the code's "qian" is    *)
(* unit 245).  The float64 supply counters are kept in the same unit so    *)
(* that fractions of a mei stay exact.                                     *)
(***************************************************************************)
EXTENDS Integers, Sequences, FiniteSets, TLC

\* ------------------------------------------------------------------ bounds
\* applied actions of the pending block that are kept for revert (the latest ones)
MaxHist == 1
\* longest mortgage / transfer list that is enumerated
MaxList == 2
\* largest borrow period of the loans that are applied
MaxPeriod == 2
\* largest diamond balance of an account
MaxDiamondBalance == 2
\* largest HAC balance and supply counter, in units of 1/10000 HAC
MaxBalance == 50000
\* largest average bid burn price (mei) the block store records
MaxPrice == 1
\* well-formed lending ids
MaxIds == 1
\* largest diamond number an Action 4 carries
MaxNumber == 2
\* blocks the chain takes in
MaxBlocks == 3
\* transactions of a block, the coinbase included
MaxTxs == 3
\* distinct transaction hashes (1..MaxTxHash) besides the coinbase's
MaxTxHash == 2
\* largest fee of a transaction
MaxFee == 2
\* longest transaction list a Block_v1 object holds
MaxTrs == 2
\* largest TransactionCount a Block_v1 object reaches
MaxTrsCount == 3
\* largest nonce, Merkle root and creation time a Block_v1 object is given
MaxNonce == 1
MaxRoot == 1
MaxTimestamp == 1
\* transactions a Block_v1 object is given
MaxTrsId == 2
\* longest diamond list and largest amount of an action on the wire
MaxWireList == 1
MaxWireAmount == 1
\* goroutines that call Hash, HashFresh and Fresh on one block
MaxThreads == 2

\* -------------------------------------------------------- program constants
DiamondLendingIdLength == 14
DiamondsSystemLendingBorrowPeriodBlockNumber == 10000
DevelopmentBorrowPeriodBlockNumber == 50
MaxMortgageDiamonds == 200
MaxBorrowPeriod == 20
RansomAmountUnit == 245
\* the block that holds one transaction twice
GrandfatherHeight == 63448

\* -------------------------------------------------------------------- data
Nil == [nil |-> TRUE]
NoErr == "nil"
\* the errors of lines 453 and 463
ErrRedeemed == "has been redeemed"
ErrPrivate == "only be redeemed privately by the mortgagor"

Address == {"a1", "a2"}
Diamond == {"WTYUIA", "HXVMEK"}

DiamondStatusNormal == "Normal"
DiamondStatusLendingSystem == "LendingSystem"

\* a 14-byte lending id, by its length and its first and last byte
LendingID ==
    { [len |-> DiamondLendingIdLength, first |-> 1, last |-> b] : b \in 1..MaxIds }
    \cup
    { [len |-> DiamondLendingIdLength, first |-> 0, last |-> 1],
      [len |-> DiamondLendingIdLength, first |-> 1, last |-> 0],
      [len |-> DiamondLendingIdLength - 1, first |-> 1, last |-> 1] }

\* one failing call of the state interface or of the block store:
\* <<call, i>> makes the call fail in loop round i (1 outside a loop)
NoFault == <<"none", 0>>

SeqsUpTo(S, n) == UNION { [1..k -> S] : k \in 0..n }

\* ----------------------------------------------------------------- amounts
Pow10(n) == IF n = 0 THEN 1 ELSE IF n = 1 THEN 10 ELSE IF n = 2 THEN 100
            ELSE IF n = 3 THEN 1000 ELSE 10000

\* fields.NewAmountByBigIntWithUnit(v, unit): v * 10^unit
NewAmountByBigIntWithUnit(v, unit) == v * Pow10(unit - 244)

\* fields.NewAmountByUnit248(mei): mei * 10^248
NewAmountByUnit248(mei) == NewAmountByBigIntWithUnit(mei, 248)

AmountEqual(a, b) == a = b
AmountLessThan(a, b) == a < b

\* Amount.ToMei(): the amount as a float64 number of mei.  The supply counters
\* of this model count ten-thousandths of a mei (the amount unit), which keeps
\* the fractions a float64 holds, so the number handed to DoAdd/DoSub is a.
ToMei(a) == a

\* ------------------------------------------------------------ result record
Ret(err, st) == [err |-> err, st |-> st, validRansomAmt |-> -1]
RetRansom(err, st, valid) == [err |-> err, st |-> st, validRansomAmt |-> valid]

\* --------------------------------------------------- state interface calls
DiamondSet(st, diamond, item) ==
    [st EXCEPT !.diamond = [st.diamond EXCEPT ![diamond] = item]]

DiamondDel(st, diamond) ==
    [st EXCEPT !.diamond = [st.diamond EXCEPT ![diamond] = Nil]]

DiamondLendingCreate(st, id, obj) ==
    [st EXCEPT !.diamond_lending = [st.diamond_lending EXCEPT ![id] = obj]]

DiamondLendingUpdate(st, id, obj) ==
    [st EXCEPT !.diamond_lending = [st.diamond_lending EXCEPT ![id] = obj]]

DiamondLendingDelete(st, id) ==
    [st EXCEPT !.diamond_lending = [st.diamond_lending EXCEPT ![id] = Nil]]

TotalSupplyDoAdd(ts, ty, v) == [ts EXCEPT ![ty] = ts[ty] + v]
TotalSupplyDoSub(ts, ty, v) == [ts EXCEPT ![ty] = ts[ty] - v]

\* ---------------------------------------------------------- balance helpers
DoAddBalanceFromChainState(st, addr, amt) ==
    Ret(NoErr, [st EXCEPT !.balance_hac = [st.balance_hac EXCEPT ![addr] = @ + amt]])

DoSubBalanceFromChainState(st, addr, amt) ==
    IF st.balance_hac[addr] < amt
    THEN Ret("balance not enough", st)
    ELSE Ret(NoErr, [st EXCEPT !.balance_hac = [st.balance_hac EXCEPT ![addr] = @ - amt]])

DoAddDiamondFromChainState(st, addr, n) ==
    Ret(NoErr, [st EXCEPT !.balance_diamond = [st.balance_diamond EXCEPT ![addr] = @ + n]])

DoSubDiamondFromChainState(st, addr, n) ==
    IF st.balance_diamond[addr] < n
    THEN Ret("diamond not enough", st)
    ELSE Ret(NoErr, [st EXCEPT !.balance_diamond = [st.balance_diamond EXCEPT ![addr] = @ - n]])

IdFormatError(id) ==
    \/ id.len # DiamondLendingIdLength
    \/ id.first = 0
    \/ id.last = 0

\* ------------------------------------------------------------- Action 15
\* the error of lines 130-132, 267-269, 417-419 and 564-566
ErrMainnet == "mainnet not yet"

\* lines 130-132 with the check left out
MainnetNotYet_Off(mark) == FALSE

\* lines 130-132 (and 267-269, 417-419, 564-566): !sys.TestDebugLocalDevelopmentMark
MainnetNotYet(mark) == ~mark

\* the loop of lines 171-204; the result carries totalLoanHAC and whether the
\* function has returned (ret) from inside the loop
RECURSIVE A15_MortgageLoop(_, _, _, _, _, _)
A15_MortgageLoop(st, list, i, feeAddr, totalLoanHAC, fault) ==
    IF i > Len(list)
    THEN [ret |-> FALSE, err |-> NoErr, st |-> st, total |-> totalLoanHAC]
    ELSE
      LET diamond == list[i]
          diaitem == st.diamond[diamond]
          stop(err, s) == [ret |-> TRUE, err |-> err, st |-> s, total |-> totalLoanHAC]
      IN
      IF diaitem = Nil THEN stop("not find", st)
      ELSE IF diaitem.Status # DiamondStatusNormal THEN stop("has been mortgaged", st)
      ELSE IF diaitem.Address # feeAddr THEN stop("not belong", st)
      ELSE IF fault = <<"DiamondSet", i>> THEN stop("DiamondSet error", st)
      ELSE
        LET st2 == DiamondSet(st, diamond,
                       [diaitem EXCEPT !.Status = DiamondStatusLendingSystem])
            diasmelt == st.block_store[diamond]
        IN
        \* line 196: e6 != nil returns e5, which is nil here
        IF fault = <<"ReadDiamond", i>> THEN stop(NoErr, st2)
        ELSE IF diasmelt = Nil THEN stop("not exist", st2)
        ELSE A15_MortgageLoop(st2, list, i + 1, feeAddr,
                              totalLoanHAC + diasmelt.AverageBidBurnPrice, fault)

\* lines 240-262
A15_Supply(st, act, dianum, fault) ==
    IF fault = <<"ReadTotalSupply", 1>> THEN Ret("ReadTotalSupply error", st)
    ELSE
      LET ts1 == TotalSupplyDoAdd(st.total_supply, "CurrentMortgageCount", dianum)
          ts2 == TotalSupplyDoAdd(ts1, "CumulationLoanHacAmount",
                                  ToMei(act.LoanTotalAmount))
      IN
      IF fault = <<"UpdateSetTotalSupply", 1>>
      THEN Ret("UpdateSetTotalSupply error", st)
      ELSE Ret(NoErr, [st EXCEPT !.total_supply = ts2])

\* lines 206-238, then the supply counters
A15_Settle(st, act, feeAddr, dianum, totalLoanHAC, paddingHei, fault) ==
    LET totalAmt == NewAmountByUnit248(totalLoanHAC) IN
    IF ~AmountEqual(totalAmt, act.LoanTotalAmount) THEN Ret("not match", st)
    ELSE
      LET e9 == DoSubDiamondFromChainState(st, feeAddr, dianum) IN
      IF e9.err # NoErr THEN e9
      ELSE
        LET e10 == DoAddBalanceFromChainState(e9.st, feeAddr, act.LoanTotalAmount) IN
        IF e10.err # NoErr THEN e10
        ELSE
          LET dlsto == [ IsRansomed          |-> FALSE,
                         CreateBlockHeight   |-> paddingHei,
                         MainAddress         |-> feeAddr,
                         MortgageDiamondList |-> act.MortgageDiamondList,
                         LoanTotalAmountMei  |-> totalLoanHAC,
                         BorrowPeriod        |-> act.BorrowPeriod ]
          IN
          IF fault = <<"DiamondLendingCreate", 1>>
          THEN Ret("DiamondLendingCreate error", e10.st)
          ELSE A15_Supply(DiamondLendingCreate(e10.st, act.LendingID, dlsto),
                          act, dianum, fault)

\* Action_15_DiamondsSystemLendingCreate.WriteinChainState
A15_WriteinChainState(st, act, feeAddr, paddingHei, mark, fault) ==
    IF MainnetNotYet(mark) THEN Ret(ErrMainnet, st)
    ELSE IF IdFormatError(act.LendingID) THEN Ret("Id format error", st)
    ELSE IF st.diamond_lending[act.LendingID] # Nil THEN Ret("already exist", st)
    ELSE
      LET dianum == act.MortgageDiamondList.Count IN
      IF dianum = 0 \/ dianum # Len(act.MortgageDiamondList.Diamonds)
      THEN Ret("Diamonds quantity error", st)
      ELSE IF dianum > MaxMortgageDiamonds
      THEN Ret("Diamonds quantity cannot over 200", st)
      ELSE IF act.BorrowPeriod < 1 \/ act.BorrowPeriod > MaxBorrowPeriod
      THEN Ret("BorrowPeriod must between 1 ~ 20", st)
      ELSE
        LET lp == A15_MortgageLoop(st, act.MortgageDiamondList.Diamonds, 1,
                                   feeAddr, 0, fault)
        IN
        IF lp.ret THEN Ret(lp.err, lp.st)
        ELSE A15_Settle(lp.st, act, feeAddr, dianum, lp.total, paddingHei, fault)

RECURSIVE A15_RecoverLoop(_, _, _, _)
A15_RecoverLoop(st, list, i, fault) ==
    IF i > Len(list) THEN Ret(NoErr, st)
    ELSE
      LET diamond == list[i]
          diaitem == st.diamond[diamond]
      IN
      \* line 284 dereferences diaitem: a missing diamond is a nil-pointer panic
      IF diaitem = Nil THEN Ret("panic", st)
      ELSE IF fault = <<"DiamondSet", i>> THEN Ret("DiamondSet error", st)
      ELSE A15_RecoverLoop(
               DiamondSet(st, diamond, [diaitem EXCEPT !.Status = DiamondStatusNormal]),
               list, i + 1, fault)

\* lines 304-325
A15_RecoverSupply(st, act, dianum, fault) ==
    IF fault = <<"ReadTotalSupply", 1>> THEN Ret("ReadTotalSupply error", st)
    ELSE
      LET ts1 == TotalSupplyDoSub(st.total_supply, "CurrentMortgageCount", dianum)
          ts2 == TotalSupplyDoSub(ts1, "CumulationLoanHacAmount",
                                  ToMei(act.LoanTotalAmount))
      IN
      IF fault = <<"UpdateSetTotalSupply", 1>>
      THEN Ret("UpdateSetTotalSupply error", st)
      ELSE Ret(NoErr, [st EXCEPT !.total_supply = ts2])

\* Action_15_DiamondsSystemLendingCreate.RecoverChainState
A15_RecoverChainState(st, act, feeAddr, mark, fault) ==
    IF MainnetNotYet(mark) THEN Ret(ErrMainnet, st)
    ELSE
      LET lp == A15_RecoverLoop(st, act.MortgageDiamondList.Diamonds, 1, fault) IN
      IF lp.err # NoErr THEN lp
      ELSE
        LET dianum == act.MortgageDiamondList.Count
            e9 == DoAddDiamondFromChainState(lp.st, feeAddr, dianum)
        IN
        IF e9.err # NoErr THEN e9
        ELSE
          LET e10 == DoSubBalanceFromChainState(e9.st, feeAddr, act.LoanTotalAmount) IN
          IF e10.err # NoErr THEN e10
          ELSE A15_RecoverSupply(e10.st, act, dianum, fault)

\* ------------------------------------------------------------- Action 16
\* lines 421-427
BorrowPeriodBlockNumber(mark) ==
    IF mark THEN DevelopmentBorrowPeriodBlockNumber
    ELSE DiamondsSystemLendingBorrowPeriodBlockNumber

\* lines 457 and 460
PrivateHeight(obj, dslbpbn) == obj.CreateBlockHeight + obj.BorrowPeriod * dslbpbn

\* realRansom1qian without the auction of lines 471-481
RealRansom1qian_NoAuction(obj, paddingHeight, dslbpbn) ==
    (1000 + 5 * obj.BorrowPeriod) * obj.LoanTotalAmountMei

\* lines 468-482: realRansom1qian
RealRansom1qian(obj, paddingHeight, dslbpbn) ==
    LET ransomBlockNumberBase == obj.BorrowPeriod * dslbpbn
        base == (1000 + 5 * obj.BorrowPeriod) * obj.LoanTotalAmountMei
        publicHeight == PrivateHeight(obj, dslbpbn) + ransomBlockNumberBase
    IN
    IF paddingHeight > publicHeight
    THEN LET subcount == (paddingHeight - publicHeight) \div dslbpbn
             maxsub == obj.BorrowPeriod * 2
             capped == IF subcount > maxsub THEN maxsub ELSE subcount
         IN base - 5 * capped * obj.LoanTotalAmountMei
    ELSE base

RECURSIVE A16_RansomLoop(_, _, _, _, _)
A16_RansomLoop(st, list, i, feeAddr, fault) ==
    IF i > Len(list) THEN Ret(NoErr, st)
    ELSE
      LET diamond == list[i]
          diaitem == st.diamond[diamond]
      IN
      IF diaitem = Nil THEN Ret("not find", st)
      ELSE IF diaitem.Status # DiamondStatusLendingSystem
      THEN Ret("status is not LendingSystem", st)
      ELSE IF fault = <<"DiamondSet", i>> THEN Ret("DiamondSet error", st)
      ELSE A16_RansomLoop(
               DiamondSet(st, diamond,
                   [diaitem EXCEPT !.Status = DiamondStatusNormal, !.Address = feeAddr]),
               list, i + 1, feeAddr, fault)

\* lines 537-559 without the DoSub of line 544
A16_Supply_NoCount(st, act, dianum, fault) ==
    IF fault = <<"ReadTotalSupply", 1>> THEN Ret("ReadTotalSupply error", st)
    ELSE
      LET ts2 == TotalSupplyDoAdd(st.total_supply, "CumulationRansomHacAmount",
                                  ToMei(act.RansomAmount))
      IN
      IF fault = <<"UpdateSetTotalSupply", 1>>
      THEN Ret("UpdateSetTotalSupply error", st)
      ELSE Ret(NoErr, [st EXCEPT !.total_supply = ts2])

\* lines 537-559
A16_Supply(st, act, dianum, fault) ==
    IF fault = <<"ReadTotalSupply", 1>> THEN Ret("ReadTotalSupply error", st)
    ELSE
      LET ts1 == TotalSupplyDoSub(st.total_supply, "CurrentMortgageCount", dianum)
          ts2 == TotalSupplyDoAdd(ts1, "CumulationRansomHacAmount",
                                  ToMei(act.RansomAmount))
      IN
      IF fault = <<"UpdateSetTotalSupply", 1>>
      THEN Ret("UpdateSetTotalSupply error", st)
      ELSE Ret(NoErr, [st EXCEPT !.total_supply = ts2])

\* lines 495-535, then the supply counters
A16_Redeem(st, act, feeAddr, dmdlendObj, fault) ==
    LET e2 == DoAddBalanceFromChainState(st, feeAddr, act.RansomAmount) IN
    IF e2.err # NoErr THEN e2
    ELSE
      LET dianum == dmdlendObj.MortgageDiamondList.Count
          lp == A16_RansomLoop(e2.st, dmdlendObj.MortgageDiamondList.Diamonds, 1,
                               feeAddr, fault)
      IN
      IF lp.err # NoErr THEN lp
      ELSE
        LET e9 == DoSubDiamondFromChainState(lp.st, feeAddr, dianum) IN
        IF e9.err # NoErr THEN e9
        ELSE IF fault = <<"DiamondLendingUpdate", 1>>
        THEN Ret("DiamondLendingUpdate error", e9.st)
        ELSE A16_Supply(
                 DiamondLendingUpdate(e9.st, act.LendingID,
                     [dmdlendObj EXCEPT !.IsRansomed = TRUE]),
                 act, dianum, fault)

\* lines 449-454 with the check left out
A16_HasBeenRedeemed_Never(dmdlendObj) == FALSE

\* lines 449-454
A16_HasBeenRedeemed(dmdlendObj) == dmdlendObj.IsRansomed

\* lines 459-464 with < for <=
A16_PrivateOnly_Strict(dmdlendObj, paddingHeight, feeAddr, dslbpbn) ==
    /\ paddingHeight < PrivateHeight(dmdlendObj, dslbpbn)
    /\ feeAddr # dmdlendObj.MainAddress

\* lines 459-464
A16_PrivateOnly(dmdlendObj, paddingHeight, feeAddr, dslbpbn) ==
    /\ paddingHeight <= PrivateHeight(dmdlendObj, dslbpbn)
    /\ feeAddr # dmdlendObj.MainAddress

\* Action_16_DiamondsSystemLendingRansom.WriteinChainState
A16_WriteinChainState(st, act, feeAddr, paddingHeight, mark, fault) ==
    IF MainnetNotYet(mark) THEN Ret(ErrMainnet, st)
    ELSE
      LET dslbpbn == BorrowPeriodBlockNumber(mark)
          dmdlendObj == st.diamond_lending[act.LendingID]
      IN
      IF IdFormatError(act.LendingID) THEN Ret("Id format error", st)
      ELSE IF dmdlendObj = Nil THEN Ret("not exist", st)
      ELSE IF A16_HasBeenRedeemed(dmdlendObj) THEN Ret(ErrRedeemed, st)
      ELSE IF A16_PrivateOnly(dmdlendObj, paddingHeight, feeAddr, dslbpbn)
      THEN Ret(ErrPrivate, st)
      ELSE
        LET validRansomAmt ==
                NewAmountByBigIntWithUnit(
                    RealRansom1qian(dmdlendObj, paddingHeight, dslbpbn),
                    RansomAmountUnit)
        IN
        IF AmountLessThan(act.RansomAmount, validRansomAmt)
        THEN RetRansom("Valid ransom amount must not less than", st, validRansomAmt)
        ELSE LET r == A16_Redeem(st, act, feeAddr, dmdlendObj, fault)
             IN RetRansom(r.err, r.st, validRansomAmt)

RECURSIVE A16_RecoverLoop(_, _, _, _, _)
A16_RecoverLoop(st, list, i, mainAddress, fault) ==
    IF i > Len(list) THEN Ret(NoErr, st)
    ELSE
      LET diamond == list[i]
          diaitem == st.diamond[diamond]
      IN
      \* line 589 dereferences diaitem: a missing diamond is a nil-pointer panic
      IF diaitem = Nil THEN Ret("panic", st)
      ELSE IF fault = <<"DiamondSet", i>> THEN Ret("DiamondSet error", st)
      ELSE A16_RecoverLoop(
               DiamondSet(st, diamond,
                   [diaitem EXCEPT !.Status = DiamondStatusLendingSystem,
                                   !.Address = mainAddress]),
               list, i + 1, mainAddress, fault)

\* lines 610-631
A16_RecoverSupply(st, act, dianum, fault) ==
    IF fault = <<"ReadTotalSupply", 1>> THEN Ret("ReadTotalSupply error", st)
    ELSE
      LET ts1 == TotalSupplyDoAdd(st.total_supply, "CurrentMortgageCount", dianum)
          ts2 == TotalSupplyDoSub(ts1, "CumulationRansomHacAmount",
                                  ToMei(act.RansomAmount))
      IN
      IF fault = <<"UpdateSetTotalSupply", 1>>
      THEN Ret("UpdateSetTotalSupply error", st)
      ELSE Ret(NoErr, [st EXCEPT !.total_supply = ts2])

\* Action_16_DiamondsSystemLendingRansom.RecoverChainState
A16_RecoverChainState(st, act, feeAddr, mark, fault) ==
    IF MainnetNotYet(mark) THEN Ret(ErrMainnet, st)
    ELSE
      LET dmdlendObj == st.diamond_lending[act.LendingID] IN
      IF dmdlendObj = Nil THEN Ret("not exist", st)
      ELSE
        \* line 581: the error DiamondLendingDelete returns is dropped; a failed
        \* delete leaves the contract in place and the function goes on
        LET st1 == IF fault = <<"DiamondLendingDelete", 1>> THEN st
                   ELSE DiamondLendingDelete(st, act.LendingID)
            lp == A16_RecoverLoop(st1, dmdlendObj.MortgageDiamondList.Diamonds, 1,
                                  dmdlendObj.MainAddress, fault)
        IN
        IF lp.err # NoErr THEN lp
        ELSE
          LET dianum == dmdlendObj.MortgageDiamondList.Count
              e9 == DoSubDiamondFromChainState(lp.st, feeAddr, dianum)
          IN
          IF e9.err # NoErr THEN e9
          ELSE
            LET e10 == DoAddBalanceFromChainState(e9.st, feeAddr, act.RansomAmount) IN
            IF e10.err # NoErr THEN e10
            ELSE A16_RecoverSupply(e10.st, act, dianum, fault)

\* -------------------------------------------------------------- Action 4
NilHash == -1
ZeroHash == 0

\* line 82: the message, which opens with the {BACKTOPOOL} tag
ErrBackToPool == "{BACKTOPOOL} Diamond must be in block height multiple of 5."

\* line 81 with every height taken as a mining height
NotMiningHeight_Never(blkhei) == FALSE

\* line 81
NotMiningHeight(blkhei) == blkhei % 5 # 0

\* line 116: "Diamond <%s> already exist."
ErrDiamondExist == "already exist"

\* lines 114-115 with the diamond never found
DiamondExists_Never(st, d) == FALSE

\* lines 114-115: state.Diamond(act.Diamond) != nil
DiamondExists(st, d) == st.diamond[d] # Nil

\* lines 84-98 with the comparison of the number left out
A4_CheckLast_NoNumber(st, act) ==
    LET lastdiamond == st.lastest_diamond IN
    IF lastdiamond = Nil THEN NoErr
    ELSE IF act.PrevHash # lastdiamond.ContainBlockHash
    THEN "Diamond prev hash must be"
    ELSE NoErr

\* lines 84-98
A4_CheckLast(st, act) ==
    LET lastdiamond == st.lastest_diamond IN
    IF lastdiamond = Nil THEN NoErr
    ELSE IF act.PrevHash # lastdiamond.ContainBlockHash
    THEN "Diamond prev hash must be"
    ELSE IF lastdiamond.Number + 1 # act.Number
    THEN "Diamond number must be"
    ELSE NoErr

\* lines 99-112: x16rs.Diamond, IsDiamondHashResultString and
\* CheckDiamondDifficulty answer through the oracle record
A4_CheckMining(act, oracle) ==
    IF ~oracle.isdia THEN "is not diamond"
    ELSE IF oracle.literal # act.Diamond THEN "Diamond need"
    ELSE IF ~oracle.difok THEN "Diamond difficulty not meet the requirements"
    ELSE NoErr

\* lines 126-158 with SetPendingSubmitStoreDiamond left out
A4_Store_NoPending(st, act, blkhei, fault) ==
    IF fault = <<"DiamondSet", 1>> THEN Ret("DiamondSet error", st)
    ELSE
      LET st1 == DiamondSet(st, act.Diamond,
                     [Address |-> act.Address, Status |-> DiamondStatusNormal])
          diamondstore == [ Diamond              |-> act.Diamond,
                            Number               |-> act.Number,
                            ContainBlockHeight   |-> blkhei,
                            ContainBlockHash     |-> NilHash,
                            PrevContainBlockHash |-> act.PrevHash,
                            MinerAddress         |-> act.Address,
                            AverageBidBurnPrice  |-> 0 ]
      IN
      IF fault = <<"SetLastestDiamond", 1>> THEN Ret("SetLastestDiamond error", st1)
      ELSE Ret(NoErr, [st1 EXCEPT !.lastest_diamond = diamondstore])

\* lines 126-158
A4_Store(st, act, blkhei, fault) ==
    IF fault = <<"DiamondSet", 1>> THEN Ret("DiamondSet error", st)
    ELSE
      \* stores.Diamond{Address}: Status keeps its zero value, read as Normal
      LET st1 == DiamondSet(st, act.Diamond,
                     [Address |-> act.Address, Status |-> DiamondStatusNormal])
          diamondstore == [ Diamond              |-> act.Diamond,
                            Number               |-> act.Number,
                            ContainBlockHeight   |-> blkhei,
                            ContainBlockHash     |-> NilHash,
                            PrevContainBlockHash |-> act.PrevHash,
                            MinerAddress         |-> act.Address,
                            AverageBidBurnPrice  |-> 0 ]
      IN
      IF fault = <<"SetLastestDiamond", 1>> THEN Ret("SetLastestDiamond error", st1)
      ELSE
        LET st2 == [st1 EXCEPT !.lastest_diamond = diamondstore] IN
        IF fault = <<"SetPendingSubmitStoreDiamond", 1>>
        THEN Ret("SetPendingSubmitStoreDiamond error", st2)
        ELSE Ret(NoErr, [st2 EXCEPT !.pending_submit_store_diamond = diamondstore])

\* Action_4_DiamondCreate.WriteinChainState
A4_WriteinChainState(st, act, blkhei, oracle, fault) ==
    IF NotMiningHeight(blkhei) THEN Ret(ErrBackToPool, st)
    ELSE IF fault = <<"ReadLastestDiamond", 1>> THEN Ret("ReadLastestDiamond error", st)
    ELSE IF A4_CheckLast(st, act) # NoErr THEN Ret(A4_CheckLast(st, act), st)
    ELSE IF A4_CheckMining(act, oracle) # NoErr THEN Ret(A4_CheckMining(act, oracle), st)
    ELSE IF DiamondExists(st, act.Diamond) THEN Ret(ErrDiamondExist, st)
    ELSE IF fault = <<"GetPendingSubmitStoreDiamond", 1>>
    THEN Ret("GetPendingSubmitStoreDiamond error", st)
    ELSE IF st.pending_submit_store_diamond # Nil
    THEN Ret("This block height has already exist diamond", st)
    ELSE A4_Store(st, act, blkhei, fault)

\* BlockStore().ReadDiamondByNumber(n): the stored smelt numbered n, nil if none
ReadDiamondByNumber(st, n) ==
    LET found == { d \in Diamond : st.block_store[d] # Nil /\ st.block_store[d].Number = n }
    IN IF found = {} THEN Nil ELSE st.block_store[CHOOSE d \in found : TRUE]

\* Action_4_DiamondCreate.RecoverChainState
A4_RecoverChainState(st, act, fault) ==
    IF fault = <<"DiamondDel", 1>> THEN Ret("DiamondDel error", st)
    ELSE
      LET st1 == DiamondDel(st, act.Diamond) IN
      \* line 179: e2 != nil returns e1, which is nil here
      IF fault = <<"ReadDiamondByNumber", 1>> THEN Ret(NoErr, st1)
      ELSE
        \* uint32(act.Number) - 1: number 0 wraps to the largest uint32, which
        \* like -1 numbers no stored smelt
        LET prevDiamond == ReadDiamondByNumber(st1, act.Number - 1) IN
        IF fault = <<"SetLastestDiamond", 1>> THEN Ret("SetLastestDiamond error", st1)
        ELSE Ret(NoErr, [st1 EXCEPT !.lastest_diamond = prevDiamond])

\* -------------------------------------------------------------- Action 5
\* Action_5_DiamondTransfer.WriteinChainState
A5_WriteinChainState(st, act, trsMainAddress, fault) ==
    IF act.Address = trsMainAddress THEN Ret("Cannot transfer to self", st)
    ELSE
      LET diaitem == st.diamond[act.Diamond] IN
      IF diaitem = Nil THEN Ret("not exist", st)
      ELSE IF diaitem.Address # trsMainAddress THEN Ret("not belong", st)
      ELSE IF fault = <<"DiamondSet", 1>> THEN Ret("DiamondSet error", st)
      ELSE Ret(NoErr, DiamondSet(st, act.Diamond, [diaitem EXCEPT !.Address = act.Address]))

\* Action_5_DiamondTransfer.RecoverChainState
A5_RecoverChainState(st, act, trsMainAddress, fault) ==
    LET diaitem == st.diamond[act.Diamond] IN
    IF diaitem = Nil THEN Ret("not exist", st)
    ELSE IF fault = <<"DiamondSet", 1>> THEN Ret("DiamondSet error", st)
    ELSE Ret(NoErr, DiamondSet(st, act.Diamond, [diaitem EXCEPT !.Address = trsMainAddress]))

\* -------------------------------------------------------------- Action 6
RECURSIVE A6_TransferLoop(_, _, _, _)
A6_TransferLoop(st, act, i, fault) ==
    IF i > Len(act.Diamonds) THEN Ret(NoErr, st)
    ELSE
      LET diamond == act.Diamonds[i]
          diaitem == st.diamond[diamond]
      IN
      IF diaitem = Nil THEN Ret("not exist", st)
      ELSE IF diaitem.Address # act.FromAddress THEN Ret("not belong", st)
      \* line 388: the error DiamondSet returns is dropped and the loop goes on
      ELSE IF fault = <<"DiamondSet", i>> THEN A6_TransferLoop(st, act, i + 1, fault)
      ELSE A6_TransferLoop(
               DiamondSet(st, diamond, [diaitem EXCEPT !.Address = act.ToAddress]),
               act, i + 1, fault)

\* Action_6_OutfeeQuantityDiamondTransfer.WriteinChainState
A6_WriteinChainState(st, act, fault) ==
    IF act.DiamondCount # Len(act.Diamonds) THEN Ret("Diamonds number quantity count error", st)
    ELSE IF act.FromAddress = act.ToAddress THEN Ret("Cannot transfer to self", st)
    ELSE A6_TransferLoop(st, act, 1, fault)

RECURSIVE A6_RecoverLoop(_, _, _, _)
A6_RecoverLoop(st, act, i, fault) ==
    IF i > Len(act.Diamonds) THEN Ret(NoErr, st)
    ELSE
      LET diamond == act.Diamonds[i]
          diaitem == st.diamond[diamond]
      IN
      IF diaitem = Nil THEN Ret("not exist", st)
      ELSE IF fault = <<"DiamondSet", i>> THEN Ret("DiamondSet error", st)
      ELSE A6_RecoverLoop(
               DiamondSet(st, diamond, [diaitem EXCEPT !.Address = act.FromAddress]),
               act, i + 1, fault)

\* Action_6_OutfeeQuantityDiamondTransfer.RecoverChainState
A6_RecoverChainState(st, act, fault) == A6_RecoverLoop(st, act, 1, fault)

\* ------------------------------------------------------------ Block_v1 object
\* The field codec (package fields) and the transaction codec (package
\* transactions) are not part of the sources at hand; they are taken from
\* the specification's field codec: fixed-width big-endian integers, and a
\* Parse that returns an error when the buffer is too short.

\* serialized sizes of the head and meta fields, in bytes
HeightSize == 5
TimestampSize == 5
HashSize == 32
VarUint4Size == 4
VarUint2Size == 2
\* serialized size of one transaction of the model: type byte and body byte
TrsSize == 2

\* version byte and head fields
BlockHeadSize == 1 + HeightSize + TimestampSize + HashSize + HashSize + VarUint4Size

\* Block_v1.Version
Version == 1

ErrBufLength == "buf length error."
ErrBufTooShort == "buf too short"
ErrTrsType == "transaction type error"

\* big-endian encoding of v in w bytes
RECURSIVE Encode(_, _)
Encode(v, w) == IF w = 0 THEN << >> ELSE Append(Encode(v \div 256, w - 1), v % 256)

\* the integer a big-endian byte sequence stands for
RECURSIVE Decode(_)
Decode(bytes) ==
    IF bytes = << >> THEN 0
    ELSE Decode(SubSeq(bytes, 1, Len(bytes) - 1)) * 256 + bytes[Len(bytes)]

\* Parse of a fixed-width field at offset seek (offsets count from 0)
FieldParse(buf, seek, w) ==
    IF Len(buf) < seek + w THEN [err |-> ErrBufTooShort, seek |-> 0, val |-> 0]
    ELSE [err |-> NoErr, seek |-> seek + w, val |-> Decode(SubSeq(buf, seek + 1, seek + w))]

\* Transaction.Serialize
TrsSerialize(trs) == << trs.Type, trs.id >>

\* transactions.ParseTransaction: the type byte chooses the variant
ParseTransaction(buf, seek) ==
    IF Len(buf) < seek + 1 THEN [err |-> ErrBufTooShort, seek |-> 0, trs |-> Nil]
    ELSE IF buf[seek + 1] \notin {0, 1, 2} THEN [err |-> ErrTrsType, seek |-> 0, trs |-> Nil]
    ELSE IF Len(buf) < seek + TrsSize THEN [err |-> ErrBufTooShort, seek |-> 0, trs |-> Nil]
    ELSE [err |-> NoErr, seek |-> seek + TrsSize,
          trs |-> [Type |-> buf[seek + 1], id |-> buf[seek + 2]]]

\* a call that panics returns no value
Panic == [panic |-> TRUE]

\* NewEmptyBlockV1 at time curt
NewEmptyBlockV1(curt) ==
    [ Height           |-> 0,
      Timestamp        |-> curt,
      PrevHash         |-> 0,
      MrklRoot         |-> 0,
      TransactionCount |-> 0,
      Nonce            |-> 0,
      Difficulty       |-> 0,
      WitnessStage     |-> 0,
      Transactions     |-> << >>,
      hash             |-> Nil ]

\* Block_v1.SerializeHead
SerializeHead(block) ==
    << Version >> \o Encode(block.Height, HeightSize)
                  \o Encode(block.Timestamp, TimestampSize)
                  \o Encode(block.PrevHash, HashSize)
                  \o Encode(block.MrklRoot, HashSize)
                  \o Encode(block.TransactionCount, VarUint4Size)

\* Block_v1.SerializeMeta
SerializeMeta(block) ==
    Encode(block.Nonce, VarUint4Size) \o Encode(block.Difficulty, VarUint4Size)
                                      \o Encode(block.WitnessStage, VarUint2Size)

\* the bytes a Serialize call returns, or its panic
Bytes(bytes) == [panic |-> FALSE, bytes |-> bytes]
BytesPanic == [panic |-> TRUE, bytes |-> << >>]

\* Block_v1.SerializeTransactions: every entry of block.Transactions, whatever
\* TransactionCount says; Serialize of a nil entry panics
RECURSIVE SerializeTrsLoop(_, _)
SerializeTrsLoop(block, i) ==
    IF i > Len(block.Transactions) THEN Bytes(<< >>)
    ELSE IF block.Transactions[i] = Nil THEN BytesPanic
    ELSE LET rest == SerializeTrsLoop(block, i + 1) IN
         IF rest.panic THEN BytesPanic
         ELSE Bytes(TrsSerialize(block.Transactions[i]) \o rest.bytes)

SerializeTransactions(block) == SerializeTrsLoop(block, 1)

\* Block_v1.SerializeBody
SerializeBody(block) ==
    LET b2 == SerializeTransactions(block) IN
    IF b2.panic THEN BytesPanic ELSE Bytes(SerializeMeta(block) \o b2.bytes)

\* Block_v1.Serialize
Serialize(block) ==
    LET body == SerializeBody(block) IN
    IF body.panic THEN BytesPanic ELSE Bytes(SerializeHead(block) \o body.bytes)

\* Block_v1.SerializeExcludeTransactions
SerializeExcludeTransactions(block) == SerializeHead(block) \o SerializeMeta(block)

ParseRet(err, seek, block) == [err |-> err, seek |-> seek, block |-> block]

\* Block_v1.ParseHead: the version byte is read by the caller, seek points at
\* the height.  The fields parsed before a failure keep their new values.
ParseHead(block, buf, seek) ==
    IF Len(buf) < seek + BlockHeadSize - 1 THEN ParseRet(ErrBufLength, 0, block)
    ELSE
      LET m2 == FieldParse(buf, seek, HeightSize)
          b2 == [block EXCEPT !.Height = m2.val]
          m3 == FieldParse(buf, m2.seek, TimestampSize)
          b3 == [b2 EXCEPT !.Timestamp = m3.val]
          m4 == FieldParse(buf, m3.seek, HashSize)
          b4 == [b3 EXCEPT !.PrevHash = m4.val]
          m5 == FieldParse(buf, m4.seek, HashSize)
          b5 == [b4 EXCEPT !.MrklRoot = m5.val]
          m6 == FieldParse(buf, m5.seek, VarUint4Size)
          b6 == [b5 EXCEPT !.TransactionCount = m6.val]
      IN
      IF m2.err # NoErr THEN ParseRet(m2.err, 0, block)
      ELSE IF m3.err # NoErr THEN ParseRet(m3.err, 0, b2)
      ELSE IF m4.err # NoErr THEN ParseRet(m4.err, 0, b3)
      ELSE IF m5.err # NoErr THEN ParseRet(m5.err, 0, b4)
      ELSE IF m6.err # NoErr THEN ParseRet(m6.err, 0, b5)
      ELSE ParseRet(NoErr, m6.seek, b6)

\* Block_v1.ParseMeta
ParseMeta(block, buf, seek) ==
    LET m1 == FieldParse(buf, seek, VarUint4Size)
        b1 == [block EXCEPT !.Nonce = m1.val]
        m2 == FieldParse(buf, m1.seek, VarUint4Size)
        b2 == [b1 EXCEPT !.Difficulty = m2.val]
        m3 == FieldParse(buf, m2.seek, VarUint2Size)
        b3 == [b2 EXCEPT !.WitnessStage = m3.val]
    IN
    IF m1.err # NoErr THEN ParseRet(m1.err, 0, block)
    ELSE IF m2.err # NoErr THEN ParseRet(m2.err, 0, b1)
    ELSE IF m3.err # NoErr THEN ParseRet(m3.err, 0, b2)
    ELSE ParseRet(NoErr, m3.seek, b3)

\* Block_v1.ParseTransactions: TransactionCount entries, nil until parsed
RECURSIVE ParseTrsLoop(_, _, _, _)
ParseTrsLoop(block, buf, seek, i) ==
    IF i > block.TransactionCount THEN ParseRet(NoErr, seek, block)
    ELSE LET p == ParseTransaction(buf, seek) IN
         IF p.err # NoErr THEN ParseRet(p.err, seek, block)
         ELSE ParseTrsLoop([block EXCEPT !.Transactions[i] = p.trs], buf, p.seek, i + 1)

ParseTransactions(block, buf, seek) ==
    ParseTrsLoop([block EXCEPT !.Transactions = [i \in 1..block.TransactionCount |-> Nil]],
                 buf, seek, 1)

\* Block_v1.ParseBody
ParseBody(block, buf, seek) ==
    LET m == ParseMeta(block, buf, seek) IN
    IF m.err # NoErr THEN ParseRet(m.err, 0, m.block)
    ELSE LET t == ParseTransactions(m.block, buf, m.seek) IN
         IF t.err # NoErr THEN ParseRet(t.err, 0, t.block)
         ELSE ParseRet(NoErr, t.seek, t.block)

\* Block_v1.Parse
Parse(block, buf, seek) ==
    LET h == ParseHead(block, buf, seek) IN
    IF h.err # NoErr THEN ParseRet(h.err, 0, h.block)
    ELSE LET d == ParseBody(h.block, buf, h.seek) IN
         IF d.err # NoErr THEN ParseRet(d.err, 0, d.block)
         ELSE ParseRet(NoErr, d.seek, d.block)

\* the size a Size call returns, or its panic
SizeRet(size) == [panic |-> FALSE, size |-> size]
SizePanic == [panic |-> TRUE, size |-> 0]

\* Block_v1.Size: the loop runs to TransactionCount and indexes
\* block.Transactions; an index past the list, or a nil entry, panics
RECURSIVE SizeLoop(_, _, _)
SizeLoop(block, i, totalsize) ==
    IF i > block.TransactionCount THEN SizeRet(totalsize)
    ELSE IF i > Len(block.Transactions) THEN SizePanic
    ELSE IF block.Transactions[i] = Nil THEN SizePanic
    ELSE SizeLoop(block, i + 1, totalsize + TrsSize)

Size(block) ==
    SizeLoop(block, 1, 1 + HeightSize + TimestampSize + HashSize + HashSize + VarUint4Size
                         + VarUint4Size + VarUint4Size + VarUint2Size)

\* CalculateBlockHash: DoubleSHA256 of the head and meta bytes; the digest is
\* kept as its preimage, so that two blocks have one hash exactly when their
\* head and meta bytes are the same
CalculateBlockHash(block) == [DoubleSHA256 |-> SerializeExcludeTransactions(block)]

HashRet(block, ret, computed) == [block |-> block, ret |-> ret, computed |-> computed]

\* Block_v1.hashFreshUnsafe
hashFreshUnsafe(block) ==
    LET h == CalculateBlockHash(block) IN HashRet([block EXCEPT !.hash = h], h, 1)

\* Block_v1.Hash, the lock apart: computed when nothing is cached
Hash(block) ==
    IF block.hash = Nil THEN hashFreshUnsafe(block)
    ELSE HashRet(block, block.hash, 0)

\* Block_v1.HashFresh
HashFresh(block) == hashFreshUnsafe(block)

\* a Fresh that leaves the cached hash in place
Fresh_Keep(block) == block

\* Block_v1.Fresh
Fresh(block) == [block EXCEPT !.hash = Nil]

\* Block_v1.SetMrklRoot
SetMrklRoot(block, root) == [block EXCEPT !.MrklRoot = root]

\* Block_v1.SetNonce
SetNonce(block, n) == [block EXCEPT !.Nonce = n]

\* Block_v1.SetNonceByte: binary.BigEndian.Uint32 reads the first four bytes
SetNonceByte(block, nonce) ==
    IF Len(nonce) < VarUint4Size THEN Panic
    ELSE [block EXCEPT !.Nonce = Decode(SubSeq(nonce, 1, VarUint4Size))]

\* Block_v1.SetTransactions: the new slice is made with the length of the
\* list the block holds; an index past it panics, entries not written stay nil
SetTransactions(block, trslist) ==
    IF Len(trslist) > Len(block.Transactions) THEN Panic
    ELSE [block EXCEPT !.Transactions =
              [i \in 1..Len(block.Transactions) |->
                  IF i <= Len(trslist) THEN trslist[i] ELSE Nil]]

\* Block_v1.AddTransaction
AddTransaction(block, trs) ==
    [block EXCEPT !.Transactions = Append(@, trs), !.TransactionCount = @ + 1]

\* Block_v1.SetTrsList
SetTrsList(block, trslist) == [block EXCEPT !.Transactions = trslist]

\* Block_v1.AddTrs
AddTrs(block, trs) ==
    [block EXCEPT !.Transactions = Append(@, trs), !.TransactionCount = @ + 1]

\* ------------------------------------------------------------------ state
VARIABLES
    development_mark,              \* sys.TestDebugLocalDevelopmentMark
    pending_height,                \* state.GetPendingBlockHeight()
    diamond,                       \* state.Diamond(literal): record or Nil
    lastest_diamond,               \* state.ReadLastestDiamond()
    pending_submit_store_diamond,  \* state.GetPendingSubmitStoreDiamond()
    diamond_lending,               \* state.DiamondLending(id): contract or Nil
    balance_hac,                   \* HAC balance of each address
    balance_diamond,               \* diamond balance of each address
    total_supply,                  \* state.ReadTotalSupply()
    block_store,                   \* state.BlockStore(): smelt of each stored diamond
    history,                       \* actions applied in the pending block (kind, action,
                                   \* fee address, chain state before), oldest first
    ransomed,                      \* lending ids an Action 16 apply has marked ransomed
    chain_height,                  \* height of the block inserted last
    chain_tx_hash,                 \* blockstate.CheckTxHash: hash -> containing height, 0 if none
    chain_applied,                 \* transactions applied by the inserted blocks, in order
    chain_coinbase,                \* fee fields of the coinbase of the block inserted last
    block_v1,                      \* a Block_v1 object: its fields and its cached hash
    built_only,                    \* the object has been through none but NewEmptyBlockV1,
                                   \* AddTransaction, AddTrs, SetTrsList and SetTransactions
    parsed,                        \* what the Parse call made last returned, Nil before it
    insertLock,                    \* block.insertLock: the goroutine that holds it, or NoThread
    pc,                            \* the statement each goroutine is at
    ret                            \* what Hash or HashFresh returned last to each goroutine

\* the variables of the actions
action_vars == << development_mark, pending_height, diamond, lastest_diamond,
                  pending_submit_store_diamond, diamond_lending, balance_hac,
                  balance_diamond, total_supply, block_store, history, ransomed >>

\* the variables of block insertion
chain_vars == << chain_height, chain_tx_hash, chain_applied, chain_coinbase >>

\* the variables of the Block_v1 object
object_vars == << block_v1, built_only >>

\* the variable of the codec
codec_vars == << parsed >>

\* the variables of the goroutines that call Hash, HashFresh and Fresh
lock_vars == << insertLock, pc, ret >>

vars == << action_vars, chain_vars, object_vars, codec_vars, lock_vars >>

\* the chain state as one value, as the actions see it
State ==
    [ diamond                      |-> diamond,
      lastest_diamond              |-> lastest_diamond,
      pending_submit_store_diamond |-> pending_submit_store_diamond,
      diamond_lending              |-> diamond_lending,
      balance_hac                  |-> balance_hac,
      balance_diamond              |-> balance_diamond,
      total_supply                 |-> total_supply,
      block_store                  |-> block_store ]

\* the balances and supply counters stay inside their bounds: a step that
\* would take one of them out is not taken
InRange(st) ==
    /\ \A a \in Address : st.balance_diamond[a] <= MaxDiamondBalance
    /\ \A a \in Address : st.balance_hac[a] <= MaxBalance
    /\ st.total_supply.CurrentMortgageCount \in 0..MaxList
    /\ st.total_supply.CumulationLoanHacAmount \in 0..MaxBalance
    /\ st.total_supply.CumulationRansomHacAmount \in 0..MaxBalance

Commit(st) ==
    /\ InRange(st)
    /\ UNCHANGED << chain_vars, object_vars, codec_vars, lock_vars >>
    /\ diamond' = st.diamond
    /\ lastest_diamond' = st.lastest_diamond
    /\ pending_submit_store_diamond' = st.pending_submit_store_diamond
    /\ diamond_lending' = st.diamond_lending
    /\ balance_hac' = st.balance_hac
    /\ balance_diamond' = st.balance_diamond
    /\ total_supply' = st.total_supply
    /\ block_store' = st.block_store

FirstHeight == 2 * DevelopmentBorrowPeriodBlockNumber

\* pending heights: two mining heights (multiples of 5), the next height, and
\* the heights one and six lending periods after it
Heights ==
    { FirstHeight, FirstHeight + 5, FirstHeight + 6,
      FirstHeight + 6 + DevelopmentBorrowPeriodBlockNumber,
      FirstHeight + 6 + 6 * DevelopmentBorrowPeriodBlockNumber }

\* the hash of the block at height h
BlockHash(h) == h

\* no block inserted yet: the chain ends one block below the first height
\* that is met, no transaction hash is recorded
ChainInit ==
    /\ chain_height = GrandfatherHeight - 2
    /\ chain_tx_hash = [h \in 0..MaxTxHash |-> 0]
    /\ chain_applied = << >>
    /\ chain_coinbase = Nil

\* The empty chain state.  Actions 4, 5 and 6 do not write the diamond
\* balances, so the balance the accounts hold is drawn here: none, or
\* MaxDiamondBalance each where lending is enabled.
\* Block_v1.CopyHeadMetaForMining: a new block with the head and meta fields
CopyHeadMetaForMining(block) ==
    [NewEmptyBlockV1(0) EXCEPT
        !.Height           = block.Height,
        !.Timestamp        = block.Timestamp,
        !.PrevHash         = block.PrevHash,
        !.MrklRoot         = block.MrklRoot,
        !.TransactionCount = block.TransactionCount,
        !.Nonce            = block.Nonce,
        !.Difficulty       = block.Difficulty,
        !.WitnessStage     = block.WitnessStage]

\* Block_v1.GetTransactions: the type assertion on a nil entry panics
GetTransactions(block) ==
    IF \E i \in 1..Len(block.Transactions) : block.Transactions[i] = Nil THEN Panic
    ELSE [trslist |-> block.Transactions]

\* Transaction.Copy: a transaction of its own with the same content
TrsCopy(trs) == [Type |-> trs.Type, id |-> trs.id]

\* Block_v1.CopyForMining: SetTransactions is called on the new block, whose
\* list is empty
CopyForMining(block) ==
    LET newblock == CopyHeadMetaForMining(block)
        trs      == GetTransactions(block)
    IN IF trs = Panic THEN Panic
       ELSE LET newtrs == IF Len(trs.trslist) > 0
                          THEN << TrsCopy(trs.trslist[1]) >> \o Tail(trs.trslist)
                          ELSE trs.trslist
            IN SetTransactions(newblock, newtrs)

\* the goroutines, and the holder of a lock nobody holds
Threads == 1..MaxThreads
NoThread == 0

\* a slice header that mixes two writes
Torn == [torn |-> TRUE]

\* a new block, nothing done to it yet
ObjectInit ==
    /\ block_v1 = NewEmptyBlockV1(0)
    /\ built_only = TRUE
    /\ parsed = Nil
    /\ insertLock = NoThread
    /\ pc = [t \in Threads |-> "idle"]
    /\ ret = [t \in Threads |-> Nil]

Init ==
    /\ development_mark \in BOOLEAN
    /\ ObjectInit
    /\ pending_height = FirstHeight
    /\ diamond = [d \in Diamond |-> Nil]
    /\ lastest_diamond = Nil
    /\ pending_submit_store_diamond = Nil
    /\ diamond_lending = [id \in LendingID |-> Nil]
    /\ balance_hac = [a \in Address |-> 0]
    /\ \E b \in {0, MaxDiamondBalance} :
          /\ development_mark \/ b = 0
          /\ balance_diamond = [a \in Address |-> b]
    /\ total_supply = [ CurrentMortgageCount      |-> 0,
                        CumulationLoanHacAmount   |-> 0,
                        CumulationRansomHacAmount |-> 0 ]
    /\ block_store = [d \in Diamond |-> Nil]
    /\ history = << >>
    /\ ransomed = {}
    /\ ChainInit

\* the latest MaxHist applied actions are kept
Push(h, e) == IF Len(h) < MaxHist THEN Append(h, e) ELSE Append(Tail(h), e)

\* A call of WriteinChainState that returned r with a nil error: the state the
\* call left is committed and the action is kept for revert.  A call that
\* returns an error leaves no trace: the caller drops the state the call
\* worked on (the interface is transactional), which is a stuttering step.
Applied(kind, act, fee, r) ==
    /\ r.err = NoErr
    /\ Commit(r.st)
    /\ history' = Push(history, [kind |-> kind, act |-> act, fee |-> fee, pre |-> State])
    /\ UNCHANGED << development_mark, pending_height >>

\* ------------------------------------------------------------------ inputs
WellFormedID == { id \in LendingID : id.len = 14 /\ id.first # 0 /\ id.last # 0 }
BaseID == [len |-> 14, first |-> 1, last |-> 1]

MortgageLists ==
    { [Count |-> Len(s), Diamonds |-> s] : s \in SeqsUpTo(Diamond, MaxList) \ {<< >>} }

BadMortgageLists ==
    { [Count |-> 0, Diamonds |-> << >>],
      [Count |-> 2, Diamonds |-> << "WTYUIA" >>],
      [Count |-> MaxMortgageDiamonds + 1,
       Diamonds |-> [i \in 1..(MaxMortgageDiamonds + 1) |-> "WTYUIA"]] }

LoanAmounts == { NewAmountByUnit248(m) : m \in 1..(MaxList * MaxPrice) }

\* the Action 15 inputs the chain applies
A15Acts ==
    [ LendingID : WellFormedID, MortgageDiamondList : MortgageLists,
      LoanTotalAmount : LoanAmounts, BorrowPeriod : 1..MaxPeriod ]

\* Action 15 inputs that break one precondition each: the id format, the
\* diamond count, the borrow period
A15BadActs ==
    [ LendingID : LendingID \ WellFormedID, MortgageDiamondList : MortgageLists,
      LoanTotalAmount : LoanAmounts, BorrowPeriod : {1} ]
    \cup [ LendingID : {BaseID}, MortgageDiamondList : BadMortgageLists,
           LoanTotalAmount : LoanAmounts, BorrowPeriod : {1} ]
    \cup [ LendingID : {BaseID}, MortgageDiamondList : MortgageLists,
           LoanTotalAmount : LoanAmounts,
           BorrowPeriod : {0, MaxBorrowPeriod, MaxBorrowPeriod + 1} ]

\* store calls of Action 15 whose failure the action can meet
A15Faults ==
    {NoFault, <<"DiamondLendingCreate", 1>>, <<"UpdateSetTotalSupply", 1>>}
    \cup { <<c, i>> : c \in {"ReadDiamond", "DiamondSet"}, i \in 1..MaxList }

\* the failures after which Action 15 still returns nil
A15SilentFaults == {NoFault} \cup { <<"ReadDiamond", i>> : i \in 1..MaxList }

\* ransom offers around the schedule of a loan of L mei: 0.995, 1, 1.005 and
\* 1.01 times the loan, and 1005 * L / 10000 HAC
RansomOffers(L) ==
    { NewAmountByBigIntWithUnit(q * L, RansomAmountUnit) : q \in {995, 1000, 1005, 1010} }
    \cup { NewAmountByBigIntWithUnit(1005 * L, RansomAmountUnit - 1) }

\* the ransom the chain applies: 1.005 times the loan
RansomAmounts(L) == { NewAmountByBigIntWithUnit(1005 * L, RansomAmountUnit) }

LoanOf(id) == IF diamond_lending[id] = Nil THEN 1 ELSE diamond_lending[id].LoanTotalAmountMei

A16Faults ==
    {NoFault, <<"DiamondSet", 1>>, <<"DiamondLendingUpdate", 1>>, <<"UpdateSetTotalSupply", 1>>}

OracleResults(d) ==
    { [isdia |-> TRUE, literal |-> d, difok |-> TRUE],
      [isdia |-> FALSE, literal |-> d, difok |-> TRUE],
      [isdia |-> TRUE, literal |-> CHOOSE o \in Diamond : o # d, difok |-> TRUE],
      [isdia |-> TRUE, literal |-> d, difok |-> FALSE] }

PrevHashInputs ==
    {ZeroHash} \cup (IF lastest_diamond = Nil THEN {}
                     ELSE {BlockHash(lastest_diamond.ContainBlockHeight)})

A4Faults ==
    {NoFault, <<"DiamondSet", 1>>, <<"SetLastestDiamond", 1>>,
     <<"SetPendingSubmitStoreDiamond", 1>>}

\* the address that mines
Miners == {"a1"}

TransferLists == SeqsUpTo(Diamond, MaxList) \ {<< >>}

\* a failure of the first DiamondSet, which Action 6 does not look at
A6SilentFaults == {NoFault, <<"DiamondSet", 1>>}

RecoverFaults ==
    {NoFault, <<"DiamondDel", 1>>, <<"ReadDiamondByNumber", 1>>,
     <<"SetLastestDiamond", 1>>, <<"DiamondLendingDelete", 1>>,
     <<"UpdateSetTotalSupply", 1>>}
    \cup { <<"DiamondSet", i>> : i \in 1..MaxList }

\* the failures after which RecoverChainState still returns nil
RecoverSilentFaults ==
    {NoFault, <<"ReadDiamondByNumber", 1>>, <<"DiamondLendingDelete", 1>>}

\* ----------------------------------------------------------------- actions
Apply4 ==
    \E d \in Diamond, n \in 1..MaxNumber, addr \in Miners, prev \in PrevHashInputs :
      \E oracle \in OracleResults(d) :
        /\ LET act == [Diamond |-> d, Number |-> n, PrevHash |-> prev, Address |-> addr]
               r == A4_WriteinChainState(State, act, pending_height, oracle, NoFault)
           IN Applied(4, act, addr, r)
        /\ UNCHANGED ransomed

Apply5 ==
    \E d \in Diamond, to \in Address, main \in Address :
        /\ LET act == [Diamond |-> d, Address |-> to]
               r == A5_WriteinChainState(State, act, main, NoFault)
           IN Applied(5, act, main, r)
        /\ UNCHANGED ransomed

Apply6 ==
    \E from \in Address, to \in Address, list \in TransferLists,
       fault \in A6SilentFaults :
        /\ LET act == [FromAddress |-> from, ToAddress |-> to,
                       DiamondCount |-> Len(list), Diamonds |-> list]
               r == A6_WriteinChainState(State, act, fault)
           IN Applied(6, act, from, r)
        /\ UNCHANGED ransomed

Apply15 ==
    \E act \in A15Acts, feeAddr \in Address, fault \in A15SilentFaults :
        /\ LET r == A15_WriteinChainState(State, act, feeAddr, pending_height,
                                          development_mark, fault)
           IN Applied(15, act, feeAddr, r)
        /\ UNCHANGED ransomed

Apply16 ==
    \E id \in WellFormedID, feeAddr \in Address :
      \E amt \in RansomAmounts(LoanOf(id)) :
        /\ LET act == [LendingID |-> id, RansomAmount |-> amt]
               r == A16_WriteinChainState(State, act, feeAddr, pending_height,
                                          development_mark, NoFault)
           IN /\ Applied(16, act, feeAddr, r)
              /\ ransomed' = ransomed \cup {id}

\* RecoverChainState of the action applied last
Recover(e, fault) ==
    CASE e.kind = 4  -> A4_RecoverChainState(State, e.act, fault)
      [] e.kind = 5  -> A5_RecoverChainState(State, e.act, e.fee, fault)
      [] e.kind = 6  -> A6_RecoverChainState(State, e.act, fault)
      [] e.kind = 15 -> A15_RecoverChainState(State, e.act, e.fee, development_mark, fault)
      [] e.kind = 16 -> A16_RecoverChainState(State, e.act, e.fee, development_mark, fault)

Revert ==
    \E fault \in RecoverSilentFaults :
        /\ history # << >>
        /\ LET e == history[Len(history)]
               r == Recover(e, fault)
           IN /\ r.err = NoErr
              /\ Commit(r.st)
              /\ history' = SubSeq(history, 1, Len(history) - 1)
        /\ UNCHANGED << development_mark, pending_height, ransomed >>

\* The chain manager inserts the pending block: the diamond it minted goes to
\* the block store with the block's hash and its average bid burn price, and
\* a later block becomes the pending one.
NewBlock ==
    \E h \in Heights, price \in 1..MaxPrice :
        /\ h > pending_height
        /\ IF pending_submit_store_diamond = Nil
           THEN /\ price = 1
                /\ UNCHANGED << lastest_diamond, block_store >>
           ELSE LET smelt == [pending_submit_store_diamond EXCEPT
                                  !.ContainBlockHash = BlockHash(pending_height),
                                  !.AverageBidBurnPrice = price]
                IN /\ lastest_diamond' = smelt
                   /\ block_store' = [block_store EXCEPT ![smelt.Diamond] = smelt]
        /\ pending_submit_store_diamond' = Nil
        /\ pending_height' = h
        /\ history' = << >>
        /\ UNCHANGED << development_mark, diamond, diamond_lending, balance_hac,
                        balance_diamond, total_supply, ransomed >>
        /\ UNCHANGED << chain_vars, object_vars, codec_vars, lock_vars >>

Next == Apply4 \/ Apply5 \/ Apply6 \/ Apply15 \/ Apply16 \/ Revert \/ NewBlock

Spec == Init /\ [][Next]_vars

\* --------------------------------------------------------- block insertion
\* A transaction is its hash (tx.Hash()), its type (tx.Type(), 0 for the
\* coinbase), whether it is a *transactions.Transaction_0_Coinbase, its fee
\* (tx.GetFee()), the fee the miner receives
\* (tx.GetFeeOfMinerRealReceived()) and whether its WriteInChainState
\* returns an error.  A block is its height and its transactions; Go's
\* block.Transactions[i] is Transactions[i + 1] here.

\* blocks/version1.go line 471: "Tx <%s> is exist, block %d."
ErrTxExist == "Tx is exist"

\* lines 496 and 500, 504
ErrNoCoinbase == "not find coinbase tx"
ErrNotCoinbase == "transaction[0] not coinbase tx"

\* the positions whose WriteInChainState was called, in the order of the calls
TxCalls(calls) ==
    LET sel == SelectSeq(calls, LAMBDA c : c[1] \in {"WriteInChainState", "WriteinChainState"})
    IN [n \in 1..Len(sel) |-> sel[n][2]]

\* what a block apply returned: the error, the block state it worked on, the
\* calls it made in order (<<call, position>>) and, of these, the
\* transactions it called
BlockRet(err, bs, calls) ==
    [err |-> err, st |-> bs, calls |-> calls, run |-> TxCalls(calls)]

\* line 469 with the recorded hashes never looked at
TxIsExist_Never(bs, txhx, blkhei) == FALSE

\* lines 464 and 469: ishav && blkhei != 63448
TxIsExist(bs, txhx, blkhei) == bs.tx_hash[txhx] # 0 /\ blkhei # GrandfatherHeight

\* the error a transaction's WriteInChainState returns
ErrTx == "transaction error"

\* lines 479-482 with the error of the transaction not looked at
TxFails_Never(tx) == FALSE

\* lines 479-482 (and 509-512): tx.WriteInChainState(blockstate) returns an error
TxFails(tx) == tx.fails

\* lines 460-493: the transactions after the coinbase, in order
RECURSIVE Block_TxLoop(_, _, _, _, _, _, _)
Block_TxLoop(bs, block, i, totalfeeuserpay, totalfeeminergot, calls, fault) ==
    IF i > Len(block.Transactions)
    THEN [ err |-> NoErr, st |-> bs, calls |-> calls,
           totalfeeuserpay |-> totalfeeuserpay, totalfeeminergot |-> totalfeeminergot ]
    ELSE
      LET tx == block.Transactions[i]
          txhx == tx.hash
          fail(e, b, c) == [ err |-> e, st |-> b, calls |-> c,
                             totalfeeuserpay |-> totalfeeuserpay,
                             totalfeeminergot |-> totalfeeminergot ]
          calls1 == Append(calls, <<"CheckTxHash", i>>)
          calls2 == Append(calls1, <<"ContainTxHash", i>>)
          calls3 == Append(calls2, <<"WriteInChainState", i>>)
      IN
      IF fault = <<"CheckTxHash", i>> THEN fail("CheckTxHash error", bs, calls1)
      ELSE IF TxIsExist(bs, txhx, block.height) THEN fail(ErrTxExist, bs, calls1)
      ELSE IF fault = <<"ContainTxHash", i>> THEN fail("ContainTxHash error", bs, calls2)
      ELSE
        LET bs1 == [bs EXCEPT !.tx_hash = [bs.tx_hash EXCEPT ![txhx] = block.height]] IN
        IF TxFails(tx) THEN fail(ErrTx, bs1, calls3)
        ELSE
          LET bs2 == [bs1 EXCEPT !.applied =
                          Append(bs1.applied, [hash |-> txhx, height |-> block.height])]
          IN
          IF fault = <<"totalfeeuserpay.Add", i>> THEN fail("amount error", bs2, calls3)
          ELSE IF fault = <<"totalfeeminergot.Add", i>> THEN fail("amount error", bs2, calls3)
          ELSE Block_TxLoop(bs2, block, i + 1, totalfeeuserpay + tx.fee,
                            totalfeeminergot + tx.feegot, calls3, fault)

\* lines 499-505 with every first transaction taken as the coinbase
NotCoinbase_Never(tx0) == FALSE

\* lines 499-505: tx0.Type() != 0, or tx0 is no *Transaction_0_Coinbase
NotCoinbase(tx0) == tx0.type # 0 \/ ~tx0.iscoinbase

\* lines 506-507 with the two sums written to each other's field
CoinbaseFees_Swapped(totalfeeuserpay, totalfeeminergot) ==
    [ TotalFeeUserPayed |-> totalfeeminergot, TotalFeeMinerReceived |-> totalfeeuserpay ]

\* lines 506-507: coinbase.TotalFeeUserPayed and coinbase.TotalFeeMinerReceived
CoinbaseFees(totalfeeuserpay, totalfeeminergot) ==
    [ TotalFeeUserPayed |-> totalfeeuserpay, TotalFeeMinerReceived |-> totalfeeminergot ]

\* Block_v1.WriteInChainState, lines 454-516
Block_WriteInChainState(bs, block, fault) ==
    LET lp == Block_TxLoop(bs, block, 2, 0, 0, << >>, fault) IN
    IF lp.err # NoErr THEN BlockRet(lp.err, lp.st, lp.calls)
    ELSE IF Len(block.Transactions) < 1 THEN BlockRet(ErrNoCoinbase, lp.st, lp.calls)
    ELSE
      LET tx0 == block.Transactions[1] IN
      IF NotCoinbase(tx0) THEN BlockRet(ErrNotCoinbase, lp.st, lp.calls)
      ELSE
        LET bs1 == [lp.st EXCEPT !.coinbase =
                        CoinbaseFees(lp.totalfeeuserpay, lp.totalfeeminergot)]
            calls1 == lp.calls \o << <<"coinbase.TotalFee", 1>>, <<"WriteInChainState", 1>> >>
        IN
        IF TxFails(tx0) THEN BlockRet(ErrTx, bs1, calls1)
        ELSE BlockRet(NoErr, bs1, calls1)

\* line 534 without the exception of the block 63448
TxIsExistV2_NoGrandfather(bs, txhx, blkhei) == bs.tx_hash[txhx] # 0

\* lines 529 and 534: ishav && blkhei != 63448
TxIsExistV2(bs, txhx, blkhei) == bs.tx_hash[txhx] # 0 /\ blkhei # GrandfatherHeight

\* lines 544-547 (and 574-577): tx.WriteinChainState(blockstate) returns an
\* error; a transaction answers its two interfaces alike
TxFailsV2(tx) == tx.fails

\* lines 525-558: the loop of the interfacev2 entry point
RECURSIVE Block_TxLoopV2(_, _, _, _, _, _, _)
Block_TxLoopV2(bs, block, i, totalfeeuserpay, totalfeeminergot, calls, fault) ==
    IF i > Len(block.Transactions)
    THEN [ err |-> NoErr, st |-> bs, calls |-> calls,
           totalfeeuserpay |-> totalfeeuserpay, totalfeeminergot |-> totalfeeminergot ]
    ELSE
      LET tx == block.Transactions[i]
          txhx == tx.hash
          fail(e, b, c) == [ err |-> e, st |-> b, calls |-> c,
                             totalfeeuserpay |-> totalfeeuserpay,
                             totalfeeminergot |-> totalfeeminergot ]
          calls1 == Append(calls, <<"CheckTxHash", i>>)
          calls2 == Append(calls1, <<"ContainTxHash", i>>)
          calls3 == Append(calls2, <<"WriteinChainState", i>>)
      IN
      IF fault = <<"CheckTxHash", i>> THEN fail("CheckTxHash error", bs, calls1)
      ELSE IF TxIsExistV2(bs, txhx, block.height) THEN fail(ErrTxExist, bs, calls1)
      ELSE IF fault = <<"ContainTxHash", i>> THEN fail("ContainTxHash error", bs, calls2)
      ELSE
        LET bs1 == [bs EXCEPT !.tx_hash = [bs.tx_hash EXCEPT ![txhx] = block.height]] IN
        IF TxFailsV2(tx) THEN fail(ErrTx, bs1, calls3)
        ELSE
          LET bs2 == [bs1 EXCEPT !.applied =
                          Append(bs1.applied, [hash |-> txhx, height |-> block.height])]
          IN
          IF fault = <<"totalfeeuserpay.Add", i>> THEN fail("amount error", bs2, calls3)
          ELSE IF fault = <<"totalfeeminergot.Add", i>> THEN fail("amount error", bs2, calls3)
          ELSE Block_TxLoopV2(bs2, block, i + 1, totalfeeuserpay + tx.fee,
                              totalfeeminergot + tx.feegot, calls3, fault)

\* Block_v1.WriteinChainState, the interfacev2 entry point, lines 519-582
Block_WriteinChainState(bs, block, fault) ==
    LET lp == Block_TxLoopV2(bs, block, 2, 0, 0, << >>, fault) IN
    IF lp.err # NoErr THEN BlockRet(lp.err, lp.st, lp.calls)
    ELSE IF Len(block.Transactions) < 1 THEN BlockRet(ErrNoCoinbase, lp.st, lp.calls)
    ELSE
      LET tx0 == block.Transactions[1] IN
      IF tx0.type # 0 \/ ~tx0.iscoinbase THEN BlockRet(ErrNotCoinbase, lp.st, lp.calls)
      ELSE
        LET bs1 == [lp.st EXCEPT !.coinbase =
                        [ TotalFeeUserPayed     |-> lp.totalfeeuserpay,
                          TotalFeeMinerReceived |-> lp.totalfeeminergot ]]
            calls1 == lp.calls \o << <<"coinbase.TotalFee", 1>>, <<"WriteinChainState", 1>> >>
        IN
        IF TxFailsV2(tx0) THEN BlockRet(ErrTx, bs1, calls1)
        ELSE BlockRet(NoErr, bs1, calls1)

\* the chain state a block is applied to
ChainState ==
    [ tx_hash |-> chain_tx_hash, applied |-> chain_applied, coinbase |-> chain_coinbase ]

\* the coinbase of the blocks the chain takes in, and their other transactions
Coinbase ==
    [hash |-> 0, type |-> 0, iscoinbase |-> TRUE, fee |-> 0, feegot |-> 0, fails |-> FALSE]

UserTxs ==
    { [hash |-> h, type |-> 2, iscoinbase |-> FALSE, fee |-> f, feegot |-> f, fails |-> FALSE] :
        h \in 1..MaxTxHash, f \in 1..MaxFee }

\* the last height a block is inserted at
LastBlockHeight == GrandfatherHeight - 2 + MaxBlocks

\* InsertBlock of the chain: the next block is applied to the chain state;
\* when the apply returns nil the state it left is the chain's, otherwise
\* the state it worked on is dropped and the block is not inserted.
InsertBlock ==
    \E txs \in SeqsUpTo(UserTxs, MaxTxs - 1) :
        LET block == [height |-> chain_height + 1, Transactions |-> << Coinbase >> \o txs]
            r == Block_WriteInChainState(ChainState, block, NoFault)
        IN /\ block.height <= LastBlockHeight
           /\ r.err = NoErr
           /\ chain_height' = block.height
           /\ chain_tx_hash' = r.st.tx_hash
           /\ chain_applied' = r.st.applied
           /\ chain_coinbase' = r.st.coinbase
           /\ UNCHANGED << action_vars, object_vars, codec_vars, lock_vars >>

\* InsertBlock of a chain that works through interfacev2
InsertBlockV2 ==
    \E txs \in SeqsUpTo(UserTxs, MaxTxs - 1) :
        LET block == [height |-> chain_height + 1, Transactions |-> << Coinbase >> \o txs]
            r == Block_WriteinChainState(ChainState, block, NoFault)
        IN /\ block.height <= LastBlockHeight
           /\ r.err = NoErr
           /\ chain_height' = block.height
           /\ chain_tx_hash' = r.st.tx_hash
           /\ chain_applied' = r.st.applied
           /\ chain_coinbase' = r.st.coinbase
           /\ UNCHANGED << action_vars, object_vars, codec_vars, lock_vars >>

BlockInit == Init /\ ~development_mark

BlockNext == InsertBlock \/ InsertBlockV2

BlockSpec == BlockInit /\ [][BlockNext]_vars

\* ------------------------------------------------------ Block_v1 operations
\* the transactions a block is given
Trs == { [Type |-> 2, id |-> n] : n \in 1..MaxTrsId }

TrsLists == SeqsUpTo(Trs, MaxTrs)

\* the blocks whose bytes arrive from the wire: a new block with a root, a
\* nonce and transactions added
RECURSIVE AddAll(_, _, _)
AddAll(block, trslist, i) ==
    IF i > Len(trslist) THEN block ELSE AddAll(AddTrs(block, trslist[i]), trslist, i + 1)

WireBlocks ==
    { AddAll(SetNonce(SetMrklRoot(NewEmptyBlockV1(curt), root), n), trslist, 1) :
        curt \in {MaxTimestamp}, root \in {MaxRoot}, n \in 0..MaxNonce, trslist \in TrsLists }

\* the buffers Parse is called on: the bytes of a block after the version
\* byte is read, whole or cut short by the last byte
ParseBufs ==
    UNION { { Serialize(b).bytes,
              SubSeq(Serialize(b).bytes, 1, Len(Serialize(b).bytes) - 1) } : b \in WireBlocks }

CallNewEmptyBlockV1 ==
    /\ \E curt \in 0..MaxTimestamp : block_v1' = NewEmptyBlockV1(curt)
    /\ built_only' = TRUE
    /\ UNCHANGED << action_vars, chain_vars, codec_vars, lock_vars >>

CallSetMrklRoot ==
    /\ \E root \in 0..MaxRoot : block_v1' = SetMrklRoot(block_v1, root)
    /\ built_only' = FALSE
    /\ UNCHANGED << action_vars, chain_vars, codec_vars, lock_vars >>

CallSetNonce ==
    /\ \E n \in 0..MaxNonce : block_v1' = SetNonce(block_v1, n)
    /\ built_only' = FALSE
    /\ UNCHANGED << action_vars, chain_vars, codec_vars, lock_vars >>

CallSetNonceByte ==
    /\ \E n \in 0..MaxNonce : block_v1' = SetNonceByte(block_v1, Encode(n, VarUint4Size))
    /\ built_only' = FALSE
    /\ UNCHANGED << action_vars, chain_vars, codec_vars, lock_vars >>

\* a call that panics ends the program: it is no step
CallSetTransactions ==
    /\ \E trslist \in TrsLists :
          /\ SetTransactions(block_v1, trslist) # Panic
          /\ block_v1' = SetTransactions(block_v1, trslist)
    /\ UNCHANGED << built_only, action_vars, chain_vars, codec_vars, lock_vars >>

CallAddTransaction ==
    /\ Len(block_v1.Transactions) < MaxTrs
    /\ block_v1.TransactionCount < MaxTrsCount
    /\ \E trs \in Trs : block_v1' = AddTransaction(block_v1, trs)
    /\ UNCHANGED << built_only, action_vars, chain_vars, codec_vars, lock_vars >>

CallSetTrsList ==
    /\ \E trslist \in TrsLists : block_v1' = SetTrsList(block_v1, trslist)
    /\ UNCHANGED << built_only, action_vars, chain_vars, codec_vars, lock_vars >>

CallAddTrs ==
    /\ Len(block_v1.Transactions) < MaxTrs
    /\ block_v1.TransactionCount < MaxTrsCount
    /\ \E trs \in Trs : block_v1' = AddTrs(block_v1, trs)
    /\ UNCHANGED << built_only, action_vars, chain_vars, codec_vars, lock_vars >>

\* Parse into the block, after the version byte; a Parse that fails leaves
\* the fields it has read
CallParse ==
    /\ \E buf \in ParseBufs : block_v1' = Parse(block_v1, buf, 1).block
    /\ built_only' = FALSE
    /\ UNCHANGED << action_vars, chain_vars, codec_vars, lock_vars >>

CallHash ==
    /\ block_v1' = Hash(block_v1).block
    /\ built_only' = FALSE
    /\ UNCHANGED << action_vars, chain_vars, codec_vars, lock_vars >>

CallHashFresh ==
    /\ block_v1' = HashFresh(block_v1).block
    /\ built_only' = FALSE
    /\ UNCHANGED << action_vars, chain_vars, codec_vars, lock_vars >>

CallFresh ==
    /\ block_v1' = Fresh(block_v1)
    /\ built_only' = FALSE
    /\ UNCHANGED << action_vars, chain_vars, codec_vars, lock_vars >>

\* the caller goes on with the copy CopyForMining returns
CallCopyForMining ==
    /\ CopyForMining(block_v1) # Panic
    /\ block_v1' = CopyForMining(block_v1)
    /\ built_only' = FALSE
    /\ UNCHANGED << action_vars, chain_vars, codec_vars, lock_vars >>

ObjectNext ==
    \/ CallNewEmptyBlockV1 \/ CallSetMrklRoot \/ CallSetNonce \/ CallSetNonceByte
    \/ CallSetTransactions \/ CallAddTransaction \/ CallSetTrsList \/ CallAddTrs
    \/ CallParse \/ CallHash \/ CallHashFresh \/ CallFresh \/ CallCopyForMining

ObjectSpec == BlockInit /\ [][ObjectNext]_vars

\* ----------------------------------------------------------- action codec
\* The actions on the wire: a 2-byte kind, read by the caller of Parse, and
\* the fields.  Bytes6, Bytes8, Bytes14, Hash and Address are raw bytes; the
\* field codec is that of the specification, as for the block.
KindSize == 2
Bytes6Size == 6
Bytes8Size == 8
AddressSize == 21
VarUint3Size == 3
VarUint1Size == 1

ErrDiamondsCount == "diamonds number quantity count error"

\* Parse of a field of w raw bytes at offset seek
BytesParse(buf, seek, w) ==
    IF Len(buf) < seek + w THEN [err |-> ErrBufTooShort, seek |-> 0, val |-> << >>]
    ELSE [err |-> NoErr, seek |-> seek + w, val |-> SubSeq(buf, seek + 1, seek + w)]

\* what a Parse call returns: its error, its offset, and the value it left
ActRet(err, seek, elm) == [err |-> err, seek |-> seek, elm |-> elm]

\* Action_4_DiamondCreate.Serialize
A4_Serialize(elm) ==
    Encode(4, KindSize) \o elm.Diamond \o Encode(elm.Number, VarUint3Size)
                        \o elm.PrevHash \o elm.Nonce \o elm.Address

\* Action_4_DiamondCreate.Parse: the error of every field Parse is dropped
A4_Parse(buf, seek) ==
    LET moveseek1 == BytesParse(buf, seek, Bytes6Size)
        moveseek2 == FieldParse(buf, moveseek1.seek, VarUint3Size)
        moveseek3 == BytesParse(buf, moveseek2.seek, HashSize)
        moveseek4 == BytesParse(buf, moveseek3.seek, Bytes8Size)
        moveseek5 == BytesParse(buf, moveseek4.seek, AddressSize)
    IN ActRet(NoErr, moveseek5.seek,
              [ Diamond  |-> moveseek1.val,
                Number   |-> moveseek2.val,
                PrevHash |-> moveseek3.val,
                Nonce    |-> moveseek4.val,
                Address  |-> moveseek5.val ])

\* Action_5_DiamondTransfer.Serialize
A5_Serialize(elm) == Encode(5, KindSize) \o elm.Diamond \o elm.Address

\* Action_5_DiamondTransfer.Parse: the error of every field Parse is dropped
A5_Parse(buf, seek) ==
    LET moveseek1 == BytesParse(buf, seek, Bytes6Size)
        moveseek2 == BytesParse(buf, moveseek1.seek, AddressSize)
    IN ActRet(NoErr, moveseek2.seek,
              [Diamond |-> moveseek1.val, Address |-> moveseek2.val])

RECURSIVE A6_SerializeLoop(_, _)
A6_SerializeLoop(elm, i) ==
    IF i > Len(elm.Diamonds) THEN << >>
    ELSE elm.Diamonds[i] \o A6_SerializeLoop(elm, i + 1)

\* Action_6_OutfeeQuantityDiamondTransfer.Serialize
A6_Serialize(elm) ==
    IF elm.DiamondCount # Len(elm.Diamonds) THEN [err |-> ErrDiamondsCount, bytes |-> << >>]
    ELSE [err |-> NoErr,
          bytes |-> Encode(6, KindSize) \o elm.FromAddress \o elm.ToAddress
                      \o Encode(elm.DiamondCount, VarUint1Size) \o A6_SerializeLoop(elm, 1)]

RECURSIVE A6_ParseLoop(_, _, _, _)
A6_ParseLoop(elm, buf, seek, i) ==
    IF i > elm.DiamondCount THEN ActRet(NoErr, seek, elm)
    ELSE LET m == BytesParse(buf, seek, Bytes6Size) IN
         A6_ParseLoop([elm EXCEPT !.Diamonds[i] = m.val], buf, m.seek, i + 1)

\* Action_6_OutfeeQuantityDiamondTransfer.Parse: the error of every field
\* Parse is dropped
A6_Parse(buf, seek) ==
    LET m1 == BytesParse(buf, seek, AddressSize)
        m2 == BytesParse(buf, m1.seek, AddressSize)
        m3 == FieldParse(buf, m2.seek, VarUint1Size)
    IN A6_ParseLoop([ FromAddress  |-> m1.val,
                      ToAddress    |-> m2.val,
                      DiamondCount |-> m3.val,
                      Diamonds     |-> [i \in 1..m3.val |-> << >>] ],
                    buf, m3.seek, 1)

\* fields.Amount.Serialize: length, sign, exponent, mantissa of length bytes
AmountSerialize(amt) == << Len(amt.mantissa), amt.sign, amt.exponent >> \o amt.mantissa

\* fields.Amount.Parse
AmountParse(buf, seek) ==
    IF Len(buf) < seek + 3 THEN [err |-> ErrBufTooShort, seek |-> 0, val |-> Nil]
    ELSE LET m == BytesParse(buf, seek + 3, buf[seek + 1]) IN
         IF m.err # NoErr THEN [err |-> m.err, seek |-> 0, val |-> Nil]
         ELSE [err |-> NoErr, seek |-> m.seek,
               val |-> [sign |-> buf[seek + 2], exponent |-> buf[seek + 3], mantissa |-> m.val]]

\* fields.DiamondListMaxLen200.Serialize: count, then the literals
RECURSIVE DiamondListSerialize(_, _)
DiamondListSerialize(list, i) ==
    IF i = 0 THEN << Len(list) >> \o DiamondListSerialize(list, 1)
    ELSE IF i > Len(list) THEN << >>
    ELSE list[i] \o DiamondListSerialize(list, i + 1)

\* fields.DiamondListMaxLen200.Parse
DiamondListParse(buf, seek) ==
    LET c == FieldParse(buf, seek, VarUint1Size) IN
    IF c.err # NoErr THEN [err |-> c.err, seek |-> 0, val |-> << >>]
    ELSE IF c.val > MaxMortgageDiamonds THEN [err |-> "out of range", seek |-> 0, val |-> << >>]
    ELSE IF Len(buf) < c.seek + c.val * Bytes6Size
         THEN [err |-> ErrBufTooShort, seek |-> 0, val |-> << >>]
    ELSE [err |-> NoErr, seek |-> c.seek + c.val * Bytes6Size,
          val |-> [i \in 1..c.val |->
                     SubSeq(buf, c.seek + (i - 1) * Bytes6Size + 1, c.seek + i * Bytes6Size)]]

\* Action_15_DiamondsSystemLendingCreate.Serialize
A15_Serialize(elm) ==
    Encode(15, KindSize) \o elm.LendingID \o DiamondListSerialize(elm.MortgageDiamondList, 0)
                         \o AmountSerialize(elm.LoanTotalAmount)
                         \o Encode(elm.BorrowPeriod, VarUint1Size)

\* Action_15_DiamondsSystemLendingCreate.Parse
A15_Parse(buf, seek) ==
    LET m1 == BytesParse(buf, seek, DiamondLendingIdLength)
        m2 == DiamondListParse(buf, m1.seek)
        m3 == AmountParse(buf, m2.seek)
        m4 == FieldParse(buf, m3.seek, VarUint1Size)
        e0 == [LendingID |-> << >>, MortgageDiamondList |-> << >>,
               LoanTotalAmount |-> Nil, BorrowPeriod |-> 0]
        e1 == [e0 EXCEPT !.LendingID = m1.val]
        e2 == [e1 EXCEPT !.MortgageDiamondList = m2.val]
        e3 == [e2 EXCEPT !.LoanTotalAmount = m3.val]
        e4 == [e3 EXCEPT !.BorrowPeriod = m4.val]
    IN
    IF m1.err # NoErr THEN ActRet(m1.err, 0, e0)
    ELSE IF m2.err # NoErr THEN ActRet(m2.err, 0, e1)
    ELSE IF m3.err # NoErr THEN ActRet(m3.err, 0, e2)
    ELSE IF m4.err # NoErr THEN ActRet(m4.err, 0, e3)
    ELSE ActRet(NoErr, m4.seek, e4)

\* Action_16_DiamondsSystemLendingRansom.Serialize
A16_Serialize(elm) ==
    Encode(16, KindSize) \o elm.LendingID \o AmountSerialize(elm.RansomAmount)

\* Action_16_DiamondsSystemLendingRansom.Parse
A16_Parse(buf, seek) ==
    LET m1 == BytesParse(buf, seek, DiamondLendingIdLength)
        m2 == AmountParse(buf, m1.seek)
        e0 == [LendingID |-> << >>, RansomAmount |-> Nil]
        e1 == [e0 EXCEPT !.LendingID = m1.val]
        e2 == [e1 EXCEPT !.RansomAmount = m2.val]
    IN
    IF m1.err # NoErr THEN ActRet(m1.err, 0, e0)
    ELSE IF m2.err # NoErr THEN ActRet(m2.err, 0, e1)
    ELSE ActRet(NoErr, m2.seek, e2)

\* the values the parsers are given on the wire
ZeroBytes(n) == [i \in 1..n |-> 0]
LiteralBytes == { << 87, 84, 89, 85, 73, 65 >>, << 72, 88, 86, 77, 69, 75 >> }
AddressBytes == { ZeroBytes(AddressSize - 1) \o << a >> : a \in 1..2 }
LendingIdBytes == { << 1 >> \o ZeroBytes(DiamondLendingIdLength - 2) \o << 1 >> }
AmountValues == { [sign |-> 1, exponent |-> 248, mantissa |-> << n >>] : n \in 1..MaxWireAmount }

A4Wire ==
    { A4_Serialize([Diamond |-> d, Number |-> 1, PrevHash |-> ZeroBytes(HashSize),
                    Nonce |-> ZeroBytes(Bytes8Size), Address |-> a]) :
        d \in LiteralBytes, a \in AddressBytes }

A5Wire == { A5_Serialize([Diamond |-> d, Address |-> a]) : d \in LiteralBytes, a \in AddressBytes }

A6Wire ==
    { A6_Serialize([FromAddress |-> a, ToAddress |-> b, DiamondCount |-> Len(l),
                    Diamonds |-> l]).bytes :
        a \in AddressBytes, b \in AddressBytes, l \in SeqsUpTo(LiteralBytes, MaxWireList) }

A15Wire ==
    { A15_Serialize([LendingID |-> id, MortgageDiamondList |-> l, LoanTotalAmount |-> amt,
                     BorrowPeriod |-> 1]) :
        id \in LendingIdBytes, l \in SeqsUpTo(LiteralBytes, MaxWireList), amt \in AmountValues }

A16Wire ==
    { A16_Serialize([LendingID |-> id, RansomAmount |-> amt]) :
        id \in LendingIdBytes, amt \in AmountValues }

BlockWire == { Serialize(b).bytes : b \in WireBlocks }

\* the result of a Parse call as the caller sees it; short: the buffer
\* ended before the last field
Parsed(kind, whole, buf, r) ==
    [kind |-> kind, short |-> Len(buf) < whole, len |-> Len(buf), err |-> r.err, seek |-> r.seek]

CodecUnchanged == UNCHANGED << action_vars, chain_vars, object_vars, lock_vars >>

CallA4Parse ==
    /\ \E bytes \in A4Wire : \E n \in 0..Len(bytes) :
          parsed' = Parsed(4, Len(bytes), SubSeq(bytes, 1, n), A4_Parse(SubSeq(bytes, 1, n), KindSize))
    /\ CodecUnchanged

CallA5Parse ==
    /\ \E bytes \in A5Wire : \E n \in 0..Len(bytes) :
          parsed' = Parsed(5, Len(bytes), SubSeq(bytes, 1, n), A5_Parse(SubSeq(bytes, 1, n), KindSize))
    /\ CodecUnchanged

CallA6Parse ==
    /\ \E bytes \in A6Wire : \E n \in 0..Len(bytes) :
          parsed' = Parsed(6, Len(bytes), SubSeq(bytes, 1, n), A6_Parse(SubSeq(bytes, 1, n), KindSize))
    /\ CodecUnchanged

CallA15Parse ==
    /\ \E bytes \in A15Wire : \E n \in 0..Len(bytes) :
          parsed' = Parsed(15, Len(bytes), SubSeq(bytes, 1, n), A15_Parse(SubSeq(bytes, 1, n), KindSize))
    /\ CodecUnchanged

CallA16Parse ==
    /\ \E bytes \in A16Wire : \E n \in 0..Len(bytes) :
          parsed' = Parsed(16, Len(bytes), SubSeq(bytes, 1, n), A16_Parse(SubSeq(bytes, 1, n), KindSize))
    /\ CodecUnchanged

\* Block_v1.Parse into a new block, after the version byte
CallBlockParse ==
    /\ \E bytes \in BlockWire : \E n \in 0..Len(bytes) :
          parsed' = Parsed(0, Len(bytes), SubSeq(bytes, 1, n),
                           Parse(NewEmptyBlockV1(0), SubSeq(bytes, 1, n), 1))
    /\ CodecUnchanged

CodecNext ==
    CallA4Parse \/ CallA5Parse \/ CallA6Parse \/ CallA15Parse \/ CallA16Parse \/ CallBlockParse

CodecSpec == BlockInit /\ [][CodecNext]_vars

\* ------------------------------------------------- Block_v1 hash, concurrent
\* Goroutines call Hash, HashFresh and Fresh on one block.  A goroutine is
\* idle or inside one call, at the statement pc names; insertLock is taken
\* with Lock() and given back by the deferred Unlock().

\* a goroutine is inside the critical section of Hash or HashFresh
InCritical(t) == insertLock = t

\* block.hash read by t.  Fresh writes the field without the lock: a read
\* that meets such a write in flight is a data race, and returns the field
\* as it was, nil, or a mix of the two.
ReadHash(t) ==
    IF \E u \in Threads \ {t} : pc[u] = "Fresh_write"
    THEN {block_v1.hash, Nil, Torn}
    ELSE {block_v1.hash}

\* block.hash written by t with v: a write that meets a write of Fresh in
\* flight leaves v or a mix of the two
WriteHash(t, v) ==
    IF \E u \in Threads \ {t} : pc[u] = "Fresh_write"
    THEN {v, Torn}
    ELSE {v}

LockUnchanged == UNCHANGED << action_vars, chain_vars, built_only, codec_vars >>

\* a goroutine calls Hash
Hash_Call(t) ==
    /\ pc[t] = "idle"
    /\ pc' = [pc EXCEPT ![t] = "Hash_Lock"]
    /\ UNCHANGED << block_v1, insertLock, ret >>
    /\ LockUnchanged

\* block.insertLock.Lock(): waits while another goroutine holds the lock
Hash_Lock(t) ==
    /\ pc[t] = "Hash_Lock"
    /\ insertLock = NoThread
    /\ insertLock' = t
    /\ pc' = [pc EXCEPT ![t] = "Hash_if"]
    /\ UNCHANGED << block_v1, ret >>
    /\ LockUnchanged

\* if block.hash == nil
Hash_If(t) ==
    /\ pc[t] = "Hash_if"
    /\ \E v \in ReadHash(t) :
          pc' = [pc EXCEPT ![t] = IF v = Nil THEN "Hash_set" ELSE "Hash_return"]
    /\ UNCHANGED << block_v1, insertLock, ret >>
    /\ LockUnchanged

\* block.hash = block.hashFreshUnsafe()
Hash_Set(t) ==
    /\ pc[t] = "Hash_set"
    /\ \E v \in WriteHash(t, CalculateBlockHash(block_v1)) :
          block_v1' = [block_v1 EXCEPT !.hash = v]
    /\ pc' = [pc EXCEPT ![t] = "Hash_return"]
    /\ UNCHANGED << insertLock, ret >>
    /\ LockUnchanged

\* return block.hash, and the deferred Unlock()
Hash_Return(t) ==
    /\ pc[t] = "Hash_return"
    /\ \E v \in ReadHash(t) : ret' = [ret EXCEPT ![t] = v]
    /\ insertLock' = NoThread
    /\ pc' = [pc EXCEPT ![t] = "idle"]
    /\ UNCHANGED block_v1
    /\ LockUnchanged

\* a goroutine calls HashFresh
HashFresh_Call(t) ==
    /\ pc[t] = "idle"
    /\ pc' = [pc EXCEPT ![t] = "HashFresh_Lock"]
    /\ UNCHANGED << block_v1, insertLock, ret >>
    /\ LockUnchanged

\* block.insertLock.Lock()
HashFresh_Lock(t) ==
    /\ pc[t] = "HashFresh_Lock"
    /\ insertLock = NoThread
    /\ insertLock' = t
    /\ pc' = [pc EXCEPT ![t] = "HashFresh_set"]
    /\ UNCHANGED << block_v1, ret >>
    /\ LockUnchanged

\* hashFreshUnsafe: block.hash = CalculateBlockHash(block)
HashFresh_Set(t) ==
    /\ pc[t] = "HashFresh_set"
    /\ \E v \in WriteHash(t, CalculateBlockHash(block_v1)) :
          block_v1' = [block_v1 EXCEPT !.hash = v]
    /\ pc' = [pc EXCEPT ![t] = "HashFresh_return"]
    /\ UNCHANGED << insertLock, ret >>
    /\ LockUnchanged

\* return block.hash, and the deferred Unlock()
HashFresh_Return(t) ==
    /\ pc[t] = "HashFresh_return"
    /\ \E v \in ReadHash(t) : ret' = [ret EXCEPT ![t] = v]
    /\ insertLock' = NoThread
    /\ pc' = [pc EXCEPT ![t] = "idle"]
    /\ UNCHANGED block_v1
    /\ LockUnchanged

\* a goroutine calls Fresh: no lock is asked for
Fresh_Call(t) ==
    /\ pc[t] = "idle"
    /\ pc' = [pc EXCEPT ![t] = "Fresh_write"]
    /\ UNCHANGED << block_v1, insertLock, ret >>
    /\ LockUnchanged

\* block.hash = nil
Fresh_Write(t) ==
    /\ pc[t] = "Fresh_write"
    /\ block_v1' = Fresh(block_v1)
    /\ pc' = [pc EXCEPT ![t] = "idle"]
    /\ UNCHANGED << insertLock, ret >>
    /\ LockUnchanged

LockNext ==
    \E t \in Threads :
        \/ Hash_Call(t) \/ Hash_Lock(t) \/ Hash_If(t) \/ Hash_Set(t) \/ Hash_Return(t)
        \/ HashFresh_Call(t) \/ HashFresh_Lock(t) \/ HashFresh_Set(t) \/ HashFresh_Return(t)
        \/ Fresh_Call(t) \/ Fresh_Write(t)

LockSpec == BlockInit /\ [][LockNext]_vars

\* ------------------------------------------------------- shared definitions
Top == history[Len(history)]

\* a step that reverts the action applied last
RevertStep ==
    /\ history # << >>
    /\ pending_height' = pending_height
    /\ history' = SubSeq(history, 1, Len(history) - 1)

ListOf(obj) == obj.MortgageDiamondList.Diamonds

Contracts == { id \in LendingID : diamond_lending[id] # Nil }

\* ---------------------------------------------------------------------- C1
\* C1: RecoverChainState of the action applied last returns nil and takes the
\* whole chain state back to the state before that action was applied (the
\* step of the induction over a sequence reverted in reverse order).
C1_ApplyRevertInverse ==
    history # << >> =>
        LET r == Recover(Top, NoFault)
        IN r.err = NoErr /\ r.st = Top.pre

\* ---------------------------------------------------------------------- C2
\* C2: at every pending height, the amount Action 16 requires for a contract
\* is at least the principal, 1000 * L qian: the auction takes off no more
\* than the interest 5 * P * L.
C2_PrincipalNeverDiscounted ==
    \A id \in Contracts :
        LET obj == diamond_lending[id]
            dslbpbn == BorrowPeriodBlockNumber(development_mark)
            base == (1000 + 5 * obj.BorrowPeriod) * obj.LoanTotalAmountMei
            required == RealRansom1qian(obj, pending_height, dslbpbn)
        IN /\ base - required <= 5 * obj.BorrowPeriod * obj.LoanTotalAmountMei
           /\ required >= 1000 * obj.LoanTotalAmountMei

\* ---------------------------------------------------------------------- C3
\* the ransom of the lending cycle as the text gives it, 1005 * L / 10000 HAC,
\* and the same number of qian in the unit the code uses
C3_RansomOfText(L) == NewAmountByBigIntWithUnit(1005 * L, RansomAmountUnit - 1)
C3_RansomInQian(L) == NewAmountByBigIntWithUnit(1005 * L, RansomAmountUnit)

\* the borrower of contract id owned exactly the mortgaged diamonds, borrowed
\* for one period with the development mark on, and the pending height is
\* 50 blocks after the loan
C3_CycleDue(id) ==
    /\ development_mark
    /\ diamond_lending[id] # Nil
    /\ LET obj == diamond_lending[id] IN
       /\ ~obj.IsRansomed
       /\ obj.BorrowPeriod = 1
       /\ pending_height = obj.CreateBlockHeight + 50
       /\ balance_diamond[obj.MainAddress] = 0
       /\ \A i \in 1..Len(ListOf(obj)) :
             /\ diamond[ListOf(obj)[i]] # Nil
             /\ diamond[ListOf(obj)[i]].Status = DiamondStatusLendingSystem

\* C3: in the lending cycle the borrower's Action 16, one period after the
\* loan, succeeds with the ransom 1005 * L (read in either unit) and leaves
\* the diamonds Normal and owned by the redeemer and the contract ransomed.
C3_LendingCycleRedeems ==
    \A id \in WellFormedID :
        C3_CycleDue(id) =>
            LET obj == diamond_lending[id]
                L == obj.LoanTotalAmountMei
            IN \E amt \in {C3_RansomOfText(L), C3_RansomInQian(L)} :
                 LET r == A16_WriteinChainState(State,
                              [LendingID |-> id, RansomAmount |-> amt],
                              obj.MainAddress, pending_height, development_mark, NoFault)
                 IN /\ r.err = NoErr
                    /\ r.st.diamond_lending[id].IsRansomed
                    /\ \A i \in 1..Len(ListOf(obj)) :
                          /\ r.st.diamond[ListOf(obj)[i]].Status = DiamondStatusNormal
                          /\ r.st.diamond[ListOf(obj)[i]].Address = obj.MainAddress

\* ---------------------------------------------------------------------- C4
\* the diamonds of every contract that is not ransomed have status
\* LendingSystem, and a diamond of that status is listed in exactly one
\* contract that is not ransomed
MortgageConsistent(dia, lending) ==
    /\ \A id \in LendingID :
          (lending[id] # Nil /\ ~lending[id].IsRansomed) =>
              \A i \in 1..Len(ListOf(lending[id])) :
                  /\ dia[ListOf(lending[id])[i]] # Nil
                  /\ dia[ListOf(lending[id])[i]].Status = DiamondStatusLendingSystem
    /\ \A d \in Diamond :
          (dia[d] # Nil /\ dia[d].Status = DiamondStatusLendingSystem) =>
              Cardinality({ id \in LendingID :
                              /\ lending[id] # Nil
                              /\ ~lending[id].IsRansomed
                              /\ \E i \in 1..Len(ListOf(lending[id])) :
                                    ListOf(lending[id])[i] = d }) = 1

\* C4: a revert keeps the mortgage records consistent: from a state where
\* they are, RecoverChainState of the action applied last leads to a state
\* where they are.
C4_RevertKeepsMortgageConsistent ==
    [][ (RevertStep /\ MortgageConsistent(diamond, diamond_lending))
            => MortgageConsistent(diamond', diamond_lending') ]_vars

\* ---------------------------------------------------------------------- C5
\* the Action 16 applies that are offered for contract id at the pending height
RansomCalls(id) ==
    { A16_WriteinChainState(State, [LendingID |-> id, RansomAmount |-> amt], fee,
                            pending_height, development_mark, NoFault) :
        fee \in Address, amt \in RansomOffers(LoanOf(id)) }

\* C5 as stated: an id that an Action 16 apply has marked ransomed never holds
\* a contract that is not ransomed, and an Action 16 apply on it fails with
\* 'has been redeemed'.
C5_RansomedIsTerminal ==
    \A id \in ransomed :
        diamond_lending[id] # Nil =>
            /\ diamond_lending[id].IsRansomed
            /\ \A r \in RansomCalls(id) : r.err = ErrRedeemed

\* C5, amended: every step but the revert of the Action 16 of a contract keeps
\* a ransomed contract ransomed, and as long as a contract is ransomed every
\* Action 16 apply on its id fails with 'has been redeemed' and changes nothing.
C5_RansomedUntilReverted ==
    /\ [](\A id \in Contracts :
             diamond_lending[id].IsRansomed =>
                 \A r \in RansomCalls(id) : r.err = ErrRedeemed /\ r.st = State)
    /\ [][ \A id \in LendingID :
             ( /\ diamond_lending[id] # Nil
               /\ diamond_lending[id].IsRansomed
               /\ ~(RevertStep /\ Top.kind = 16 /\ Top.act.LendingID = id) )
             => (diamond_lending'[id] # Nil /\ diamond_lending'[id].IsRansomed) ]_vars

\* a contract is ransomed and another action has been applied since
C5_Witness ==
    \E id \in ransomed :
        /\ diamond_lending[id] # Nil
        /\ diamond_lending[id].IsRansomed
        /\ history # << >>
        /\ Top.kind # 16

\* ---------------------------------------------------------------------- C6
\* C6: for every contract, at a height up to private_height an Action 16
\* apply by an address other than the contract's main address fails and
\* changes nothing; past private_height no apply is rejected for the
\* redeemer's identity.
C6_PrivateRedemption ==
    \A id \in Contracts, fee \in Address, H \in Heights :
        \A amt \in RansomOffers(LoanOf(id)) :
            LET obj == diamond_lending[id]
                private_height == obj.CreateBlockHeight
                    + obj.BorrowPeriod * BorrowPeriodBlockNumber(development_mark)
                r == A16_WriteinChainState(State,
                         [LendingID |-> id, RansomAmount |-> amt], fee, H,
                         development_mark, NoFault)
            IN /\ (H <= private_height /\ fee # obj.MainAddress)
                      => (r.err # NoErr /\ r.st = State)
               /\ H > private_height => r.err # ErrPrivate

\* at private_height itself a third party is turned away for not being the
\* mortgagor, with a ransom that is large enough
C6_Witness ==
    \E id \in Contracts, fee \in Address :
        LET obj == diamond_lending[id]
            r == A16_WriteinChainState(State,
                     [LendingID |-> id,
                      RansomAmount |-> C3_RansomInQian(obj.LoanTotalAmountMei)],
                     fee, pending_height, development_mark, NoFault)
        IN /\ ~obj.IsRansomed
           /\ obj.BorrowPeriod = 1
           /\ fee # obj.MainAddress
           /\ pending_height = obj.CreateBlockHeight
                  + BorrowPeriodBlockNumber(development_mark)
           /\ r.err = ErrPrivate

\* ---------------------------------------------------------------------- C7
Min(a, b) == IF a < b THEN a ELSE b

\* the required ransom in qian as the schedule states it, for a pending
\* height H and a lending period of B blocks
C7_Required(obj, H, B) ==
    LET P == obj.BorrowPeriod
        L == obj.LoanTotalAmountMei
        public_height == obj.CreateBlockHeight + 2 * P * B
        R0 == (1000 + 5 * P) * L
    IN IF H <= public_height THEN R0
       ELSE R0 - 5 * Min((H - public_height) \div B, 2 * P) * L

\* everything Action 16 asks for, the ransom amount aside: the mark is set,
\* the contract is open, the height is past the private period or the
\* redeemer is the mortgagor, the diamonds are mortgaged, and the redeemer's
\* diamond balance covers the count
C7_OtherPreconditions(id, fee, H) ==
    LET obj == diamond_lending[id] IN
    /\ development_mark
    /\ ~obj.IsRansomed
    /\ H > obj.CreateBlockHeight + obj.BorrowPeriod * DevelopmentBorrowPeriodBlockNumber
         \/ fee = obj.MainAddress
    /\ \A i \in 1..Len(ListOf(obj)) :
          /\ diamond[ListOf(obj)[i]] # Nil
          /\ diamond[ListOf(obj)[i]].Status = DiamondStatusLendingSystem
    /\ balance_diamond[fee] >= obj.MortgageDiamondList.Count

RECURSIVE SumOfPrices(_, _)
SumOfPrices(list, i) ==
    IF i > Len(list) THEN 0
    ELSE block_store[list[i]].AverageBidBurnPrice + SumOfPrices(list, i + 1)

\* the preconditions of Action 15 as they are listed
C9_Preconditions(act, fee) ==
    LET list == act.MortgageDiamondList.Diamonds IN
    /\ act.LendingID.len = 14 /\ act.LendingID.first # 0 /\ act.LendingID.last # 0
    /\ diamond_lending[act.LendingID] = Nil
    /\ act.MortgageDiamondList.Count \in 1..200
    /\ act.MortgageDiamondList.Count = Len(list)
    /\ act.BorrowPeriod \in 1..20
    /\ \A i \in 1..Len(list) :
          /\ diamond[list[i]] # Nil
          /\ diamond[list[i]].Status = DiamondStatusNormal
          /\ diamond[list[i]].Address = fee
          /\ block_store[list[i]] # Nil
    /\ NewAmountByUnit248(SumOfPrices(list, 1)) = act.LoanTotalAmount

\* C9: an Action 15 apply returns nil only if every listed precondition holds.
C9_FailsUnlessPreconditions ==
    \A act \in A15Acts \cup A15BadActs, fee \in Address, fault \in A15Faults :
        A15_WriteinChainState(State, act, fee, pending_height,
                              development_mark, fault).err = NoErr
            => C9_Preconditions(act, fee)

\* --------------------------------------------------------------------- C10
\* C10: an Action 15 apply that returns nil has set every listed diamond to
\* LendingSystem, taken the count off the sender's diamond balance, added the
\* loan to the sender's HAC balance, created the contract (not ransomed,
\* created at the pending height, sender as main address) and added the count
\* and the loan in mei to the supply counters.
C10_SuccessHasAllEffects ==
    \A act \in A15Acts, fee \in Address, fault \in A15Faults :
        LET r == A15_WriteinChainState(State, act, fee, pending_height,
                                       development_mark, fault)
            list == act.MortgageDiamondList.Diamonds
            n == act.MortgageDiamondList.Count
        IN r.err = NoErr =>
            /\ \A i \in 1..Len(list) :
                  /\ r.st.diamond[list[i]] # Nil
                  /\ r.st.diamond[list[i]].Status = DiamondStatusLendingSystem
            /\ r.st.balance_diamond[fee] = balance_diamond[fee] - n
            /\ r.st.balance_hac[fee] = balance_hac[fee] + act.LoanTotalAmount
            /\ r.st.diamond_lending[act.LendingID] # Nil
            /\ ~r.st.diamond_lending[act.LendingID].IsRansomed
            /\ r.st.diamond_lending[act.LendingID].CreateBlockHeight = pending_height
            /\ r.st.diamond_lending[act.LendingID].MainAddress = fee
            /\ r.st.total_supply.CurrentMortgageCount
                   = total_supply.CurrentMortgageCount + n
            /\ r.st.total_supply.CumulationLoanHacAmount
                   = total_supply.CumulationLoanHacAmount + ToMei(act.LoanTotalAmount)

\* --------------------------------------------------------------------- C11
\* C11: RecoverChainState of an Action 15 whose apply returned nil returns
\* nil and leaves no contract under the lending id, the listed diamonds
\* Normal, and the balances and supply counters as they were before the apply.
C11_RevertUndoesLending ==
    \A act \in A15Acts, fee \in Address :
        LET r == A15_WriteinChainState(State, act, fee, pending_height,
                                       development_mark, NoFault)
            v == A15_RecoverChainState(r.st, act, fee, development_mark, NoFault)
            list == act.MortgageDiamondList.Diamonds
        IN r.err = NoErr =>
            /\ v.err = NoErr
            /\ v.st.diamond_lending[act.LendingID] = Nil
            /\ \A i \in 1..Len(list) : v.st.diamond[list[i]].Status = DiamondStatusNormal
            /\ v.st.balance_hac = balance_hac
            /\ v.st.balance_diamond = balance_diamond
            /\ v.st.total_supply = total_supply

\* --------------------------------------------------------------------- C12
\* the ransom inputs of Action 16, well formed or not
A16Inputs == [ LendingID : LendingID, RansomAmount : RansomOffers(1) ]

\* C12: with the development mark not set, apply and revert of Action 15
\* and of Action 16 return 'mainnet not yet' in every chain state, whatever
\* the input and whatever store call would fail, and leave the state as it
\* is; the lending period is 10000 blocks without the mark and 50 with it.
C12_MainnetNotYet ==
    /\ ~development_mark =>
         /\ \A act \in A15Acts \cup A15BadActs, fee \in Address :
              /\ \A f \in A15Faults :
                   A15_WriteinChainState(State, act, fee, pending_height,
                                         development_mark, f) = Ret(ErrMainnet, State)
              /\ \A f \in RecoverFaults :
                   A15_RecoverChainState(State, act, fee, development_mark, f)
                       = Ret(ErrMainnet, State)
         /\ \A act \in A16Inputs, fee \in Address :
              /\ \A f \in A16Faults :
                   LET r == A16_WriteinChainState(State, act, fee, pending_height,
                                                  development_mark, f)
                   IN r.err = ErrMainnet /\ r.st = State
              /\ \A f \in RecoverFaults :
                   A16_RecoverChainState(State, act, fee, development_mark, f)
                       = Ret(ErrMainnet, State)
    /\ BorrowPeriodBlockNumber(FALSE) = 10000
    /\ BorrowPeriodBlockNumber(TRUE) = 50

\* the mark is not set and an Action 15 over minted diamonds of the
\* mortgagor, which under the mark passes every check up to the diamond
\* balance, is turned away
C12_Witness ==
    /\ ~development_mark
    /\ \E act \in A15Acts, fee \in Address :
          /\ A15_WriteinChainState(State, act, fee, pending_height, TRUE, NoFault).err
                 = "diamond not enough"
          /\ A15_WriteinChainState(State, act, fee, pending_height,
                                   development_mark, NoFault).err = ErrMainnet

\* --------------------------------------------------------------------- C13
\* a step in which an Action 4 was applied; the applied action is Top'
MintStep ==
    /\ history' # history
    /\ Len(history') >= Len(history)
    /\ history'[Len(history')].kind = 4

\* C13: diamond numbers are contiguous from 1: a mint that is applied while
\* there is no last diamond has number 1, and a mint that is applied while
\* there is one has the number of the last diamond plus 1.
C13_NumbersContiguous ==
    [][ MintStep =>
          history'[Len(history')].act.Number =
              IF lastest_diamond = Nil THEN 1 ELSE lastest_diamond.Number + 1 ]_vars

\* --------------------------------------------------------------------- C14
\* the Action 4 inputs met by the claims: every literal, the numbers from 0
\* to one past the largest minted, the zero hash and the hashes of the
\* blocks at mining heights
A4Inputs ==
    [ Diamond : Diamond, Number : 0..(MaxNumber + 1),
      PrevHash : {ZeroHash} \cup { BlockHash(h) : h \in { k \in Heights : k % 5 = 0 } },
      Address : Miners ]

\* every failure of a store call of Action 4 apply
A4AllFaults ==
    A4Faults \cup {<<"ReadLastestDiamond", 1>>, <<"GetPendingSubmitStoreDiamond", 1>>}

\* act continues the last diamond
ContinuesLast(act) ==
    /\ act.PrevHash = lastest_diamond.ContainBlockHash
    /\ act.Number = lastest_diamond.Number + 1

\* C14: while there is a last diamond, an Action 4 whose prev_hash is not
\* the last diamond's contain_block_hash or whose number is not the last
\* number plus 1 returns an error and writes nothing, whatever the mining
\* oracle answers; at a mining height with the stores answering, the error
\* is the one of the prev hash or of the number.
C14_MintContinuesLast ==
    lastest_diamond # Nil =>
      \A act \in A4Inputs :
        ~ContinuesLast(act) =>
          \A oracle \in OracleResults(act.Diamond), f \in A4AllFaults :
            LET r == A4_WriteinChainState(State, act, pending_height, oracle, f) IN
            /\ r.err # NoErr
            /\ r.st = State
            /\ (pending_height % 5 = 0 /\ f = NoFault) =>
                  r.err = IF act.PrevHash # lastest_diamond.ContainBlockHash
                          THEN "Diamond prev hash must be"
                          ELSE "Diamond number must be"

\* there is a last diamond, and of two mints that differ in the number only
\* the one with the wrong number is refused and the other is accepted
C14_Witness ==
    /\ lastest_diamond # Nil
    /\ \E act \in A4Inputs :
         LET oracle == [isdia |-> TRUE, literal |-> act.Diamond, difok |-> TRUE]
             wrong == [act EXCEPT !.Number = act.Number + 1]
         IN /\ ContinuesLast(act)
            /\ A4_WriteinChainState(State, act, pending_height, oracle, NoFault).err = NoErr
            /\ A4_WriteinChainState(State, wrong, pending_height, oracle, NoFault).err
                   = "Diamond number must be"

\* --------------------------------------------------------------------- C15
\* pending heights that are not multiples of 5: the ones the chain reaches
\* and the first ones of a chain
OffHeights == { h \in Heights \cup 1..(FirstHeight \div 20) : h % 5 # 0 }

\* the mining oracle accepts the literal d
OracleOk(d) == [isdia |-> TRUE, literal |-> d, difok |-> TRUE]

\* C15: at every pending block height that is not a multiple of 5, Action 4
\* apply returns the error whose message opens with '{BACKTOPOOL}', for every
\* action the oracle accepts and whatever the store calls do, and the diamond
\* table, last_diamond and pending_submit_store_diamond stay as they are.
C15_BackToPool ==
    \A h \in OffHeights \cup ({pending_height} \ { k \in Heights : k % 5 = 0 }) :
      \A act \in A4Inputs, f \in {NoFault, <<"ReadLastestDiamond", 1>>, <<"DiamondSet", 1>>} :
          LET r == A4_WriteinChainState(State, act, h, OracleOk(act.Diamond), f) IN
          /\ r.err = ErrBackToPool
          /\ r.st.diamond = diamond
          /\ r.st.lastest_diamond = lastest_diamond
          /\ r.st.pending_submit_store_diamond = pending_submit_store_diamond

\* the pending height is not a multiple of 5 and a mint that the block one
\* height lower would take is sent back to the pool
C15_Witness ==
    /\ pending_height % 5 # 0
    /\ \E act \in A4Inputs :
         /\ A4_WriteinChainState(State, act, pending_height - 1,
                                 OracleOk(act.Diamond), NoFault).err = NoErr
         /\ A4_WriteinChainState(State, act, pending_height,
                                 OracleOk(act.Diamond), NoFault).err = ErrBackToPool

\* --------------------------------------------------------------------- C16
\* what an accepted mint leaves: the pending diamond and the last diamond
\* are one smelt record of the action, with no block hash and the pending height
MintedSmelt(st, act, h) ==
    /\ st.pending_submit_store_diamond # Nil
    /\ st.pending_submit_store_diamond = st.lastest_diamond
    /\ st.lastest_diamond.Diamond = act.Diamond
    /\ st.lastest_diamond.Number = act.Number
    /\ st.lastest_diamond.ContainBlockHash = NilHash
    /\ st.lastest_diamond.ContainBlockHeight = h

\* every call of Action 4 apply in the present state: it returns an error
\* when the pending block has its diamond or its height is no multiple of 5,
\* and a call that returns nil leaves the smelt record
C16_MintCalls ==
    \A act \in A4Inputs, f \in A4AllFaults :
      \A oracle \in OracleResults(act.Diamond) :
        LET r == A4_WriteinChainState(State, act, pending_height, oracle, f) IN
        /\ pending_submit_store_diamond # Nil => r.err # NoErr
        /\ pending_height % 5 # 0 => r.err # NoErr
        /\ r.err = NoErr => MintedSmelt(r.st, act, pending_height)

\* C16: at most one diamond is minted per block and only at heights that are
\* multiples of 5.  Action 4 apply fails while the pending block has its
\* diamond; an apply that returns nil sets pending_submit_store_diamond and
\* last_diamond to the same smelt record, with a null contain_block_hash and
\* the pending height; a mint is applied only when the pending block has no
\* diamond yet, and the pending diamond stays until the next block.
C16_OneMintPerBlock ==
    /\ []C16_MintCalls
    /\ [][ MintStep =>
             /\ pending_submit_store_diamond = Nil
             /\ pending_height % 5 = 0
             /\ MintedSmelt(State', history'[Len(history')].act, pending_height) ]_vars
    /\ [][ (pending_submit_store_diamond # Nil /\ pending_height' = pending_height)
              => pending_submit_store_diamond' # Nil ]_vars

\* a mint was applied in the pending block, it left the smelt record, and
\* no further mint is taken in this block
C16_Witness ==
    /\ history # << >>
    /\ Top.kind = 4
    /\ Top.pre.pending_submit_store_diamond = Nil
    /\ MintedSmelt(State, Top.act, pending_height)
    /\ \A act \in A4Inputs :
         A4_WriteinChainState(State, act, pending_height,
                              OracleOk(act.Diamond), NoFault).err # NoErr

\* --------------------------------------------------------------------- C17
\* every call of Action 4 apply in the present state for a literal that has
\* its diamond record returns an error and writes nothing; the error is
\* 'already exist' when the checks made before it pass
C17_MintCalls ==
    \A act \in A4Inputs, f \in A4AllFaults :
      \A oracle \in OracleResults(act.Diamond) :
        LET r == A4_WriteinChainState(State, act, pending_height, oracle, f) IN
        diamond[act.Diamond] # Nil =>
          /\ r.err # NoErr
          /\ r.st = State
          /\ ( /\ pending_height % 5 = 0
               /\ f # <<"ReadLastestDiamond", 1>>
               /\ A4_CheckLast(State, act) = NoErr
               /\ oracle = OracleOk(act.Diamond) ) => r.err = ErrDiamondExist

\* C17: a literal is minted at most once.  Action 4 apply fails, with
\* 'already exist' once the height, last-diamond and mining checks are
\* passed, while the literal has a diamond record; a mint that is applied is
\* of a literal without a record and leaves the owner and the status of
\* every existing record as they were.
C17_MintedOnce ==
    /\ []C17_MintCalls
    /\ [][ MintStep =>
             /\ diamond[history'[Len(history')].act.Diamond] = Nil
             /\ \A d \in Diamond : diamond[d] # Nil => diamond'[d] = diamond[d] ]_vars

\* a minted diamond has gone to another owner and a new mint of its literal,
\* valid in everything else, is refused with 'already exist'
C17_Witness ==
    \E act \in A4Inputs :
        /\ diamond[act.Diamond] # Nil
        /\ diamond[act.Diamond].Address # act.Address
        /\ A4_WriteinChainState(State, act, pending_height,
                                OracleOk(act.Diamond), NoFault).err = ErrDiamondExist

\* --------------------------------------------------------------------- C18
\* C18: a revert of an Action 4 that returns nil has deleted the diamond
\* record of the action's literal and has set last_diamond to the smelt
\* record numbered n - 1 of the block store (none when there is no such
\* record), where n is the action's number.
C18_RevertRestoresLast ==
    [][ (RevertStep /\ Top.kind = 4) =>
          /\ diamond'[Top.act.Diamond] = Nil
          /\ lastest_diamond' = ReadDiamondByNumber(State, Top.act.Number - 1) ]_vars

\* --------------------------------------------------------------------- C19
\* the Action 6 inputs: every list of one to MaxList literals, a literal
\* twice included, between any two addresses
A6Inputs ==
    { [FromAddress |-> from, ToAddress |-> to, DiamondCount |-> Len(list), Diamonds |-> list] :
        from \in Address, to \in Address, list \in TransferLists }

\* a store failure in one round of a transfer, or none
TransferFaults == {NoFault} \cup { <<"DiamondSet", i>> : i \in 1..MaxList }

\* Action 5 of the main address: refused unless the preconditions hold, the
\* diamond is the recipient's after a nil return, and the sender's again
\* after the revert of it
C19_Transfer5 ==
    \A d \in Diamond, to \in Address, main \in Address, f \in TransferFaults :
      LET act == [Diamond |-> d, Address |-> to]
          r == A5_WriteinChainState(State, act, main, f)
      IN
      /\ (to = main \/ diamond[d] = Nil \/ diamond[d].Address # main) => r.err # NoErr
      /\ r.err = NoErr =>
           /\ r.st.diamond[d].Address = to
           /\ r.st.diamond[d].Status = diamond[d].Status
           /\ \A g \in TransferFaults :
                LET v == A5_RecoverChainState(r.st, act, main, g) IN
                v.err = NoErr => v.st.diamond[d] = diamond[d]

\* Action 6: the same for every diamond of the list
C19_Transfer6 ==
    \A act \in A6Inputs, f \in TransferFaults :
      LET list == act.Diamonds
          r == A6_WriteinChainState(State, act, f)
      IN
      /\ ( \/ act.FromAddress = act.ToAddress
           \/ \E i \in 1..Len(list) : diamond[list[i]] = Nil
           \/ \E i \in 1..Len(list) : diamond[list[i]].Address # act.FromAddress )
           => r.err # NoErr
      /\ r.err = NoErr =>
           /\ \A i \in 1..Len(list) :
                /\ r.st.diamond[list[i]].Address = act.ToAddress
                /\ r.st.diamond[list[i]].Status = diamond[list[i]].Status
           /\ \A g \in TransferFaults :
                LET v == A6_RecoverChainState(r.st, act, g) IN
                v.err = NoErr => \A i \in 1..Len(list) : v.st.diamond[list[i]] = diamond[list[i]]

\* C19: a diamond transfer by Action 5 or Action 6 returns an error when the
\* sender is the recipient, when a listed diamond does not exist or when a
\* listed diamond is not the sender's; after an apply that returns nil every
\* listed diamond has the recipient as address and its status as before;
\* after a revert that returns nil every listed diamond is the sender's again.
C19_TransferAndRevert == C19_Transfer5 /\ C19_Transfer6

\* --------------------------------------------------------------------- C20
\* transactions met by the claims about a block: the ones the chain takes
\* in, the same failing, the same with a part of the fee burnt, and a
\* transaction in the coinbase's place
TxInputs ==
    UserTxs \cup { [t EXCEPT !.fails = TRUE] : t \in { u \in UserTxs : u.fee = 1 } }
            \cup { [t EXCEPT !.feegot = t.fee - 1] : t \in { u \in UserTxs : u.fee = MaxFee } }

BlockInputs ==
    { [height |-> h, Transactions |-> txs] :
        h \in (GrandfatherHeight - 1)..LastBlockHeight,
        txs \in {<< >>} \cup
                { <<c>> \o rest :
                    c \in {Coinbase, [Coinbase EXCEPT !.fails = TRUE],
                            [Coinbase EXCEPT !.type = 2, !.iscoinbase = FALSE],
                            [Coinbase EXCEPT !.iscoinbase = FALSE]},
                    rest \in SeqsUpTo(TxInputs, MaxTxs - 1) } }

\* a failure of one state call of the block apply, or none
BlockFaults ==
    {NoFault} \cup
    { <<c, i>> : c \in {"CheckTxHash", "ContainTxHash", "totalfeeuserpay.Add",
                        "totalfeeminergot.Add"}, i \in 2..MaxTxs }

\* positions after the coinbase whose hash is recorded in the chain state or
\* is the hash of an earlier position after the coinbase
Repeats(block) ==
    { i \in 2..Len(block.Transactions) :
        \/ chain_tx_hash[block.Transactions[i].hash] # 0
        \/ \E j \in 2..(i - 1) : block.Transactions[j].hash = block.Transactions[i].hash }

\* every apply of a block that repeats a hash: at a height other than 63448
\* it returns an error and calls no transaction at or after the first
\* repeat, nor the coinbase; the error is the one of line 471 when nothing
\* failed before the repeat
C20_BlockCalls ==
    \A block \in BlockInputs, f \in BlockFaults :
      LET r == Block_WriteInChainState(ChainState, block, f)
          txs == block.Transactions
      IN
      (Repeats(block) # {} /\ block.height # GrandfatherHeight) =>
        LET k == CHOOSE i \in Repeats(block) : \A j \in Repeats(block) : i <= j IN
        /\ r.err # NoErr
        /\ \A n \in 1..Len(r.run) : r.run[n] >= 2 /\ r.run[n] < k
        /\ ( /\ \A j \in 2..(k - 1) : ~txs[j].fails
             /\ (f = NoFault \/ f[2] > k) ) => r.err = ErrTxExist

\* C20: a transaction hash is not applied twice in the chain: among the
\* transactions the inserted blocks applied, a hash that was applied before
\* is applied again only by the block of height 63448, and every applied
\* hash is recorded for check_tx_hash.  A block apply at another height
\* returns an error when the hash of a transaction after the coinbase is
\* already recorded, be it by an earlier block or by an earlier position of
\* the same block, and calls no later transaction after that.
C20_NoDuplicateTxHash ==
    /\ \A q \in 1..Len(chain_applied) :
         /\ chain_tx_hash[chain_applied[q].hash] # 0
         /\ \A p \in 1..(q - 1) :
              chain_applied[p].hash = chain_applied[q].hash
                 => chain_applied[q].height = GrandfatherHeight
    /\ C20_BlockCalls

\* the block of height 63448 has applied a hash twice, and the next block,
\* which repeats that hash after a new transaction, is refused at the
\* repeat with the new transaction called and nothing after it
C20_Witness ==
    /\ chain_height = GrandfatherHeight
    /\ \E p, q \in 1..Len(chain_applied) :
          /\ p < q
          /\ chain_applied[p].hash = chain_applied[q].hash
          /\ chain_applied[q].height = GrandfatherHeight
          /\ \E block \in BlockInputs :
               LET r == Block_WriteInChainState(ChainState, block, NoFault) IN
               /\ block.height = chain_height + 1
               /\ Len(block.Transactions) = 3
               /\ block.Transactions[3].hash = chain_applied[p].hash
               /\ r.err = ErrTxExist
               /\ r.run = << 2 >>

\* --------------------------------------------------------------------- C21
\* C21: the apply of a block that has no transactions, or whose first
\* transaction is not a coinbase (its type is not 0 or it is no
\* Transaction_0_Coinbase), returns an error in every chain state and under
\* every store failure, and the WriteInChainState of the first transaction
\* is not called.
C21_NoCoinbaseNoApply ==
    \A block \in BlockInputs, f \in BlockFaults :
      LET r == Block_WriteInChainState(ChainState, block, f)
          txs == block.Transactions
      IN
      (Len(txs) = 0 \/ txs[1].type # 0 \/ ~txs[1].iscoinbase) =>
        /\ r.err # NoErr
        /\ \A n \in 1..Len(r.run) : r.run[n] # 1
        /\ (Len(txs) = 0 /\ f = NoFault) => r.err = ErrNoCoinbase

\* blocks were inserted, and a further block of new transactions that are
\* all applied is refused because its first transaction is of another type
C21_Witness ==
    /\ chain_applied # << >>
    /\ \E block \in BlockInputs :
         LET r == Block_WriteInChainState(ChainState, block, NoFault) IN
         /\ block.height = chain_height + 1
         /\ Len(block.Transactions) = 2
         /\ block.Transactions[1].type # 0
         /\ r.run = << 2 >>
         /\ r.err = ErrNotCoinbase

\* --------------------------------------------------------------------- C22
RECURSIVE SumFee(_, _)
SumFee(txs, i) == IF i > Len(txs) THEN 0 ELSE txs[i].fee + SumFee(txs, i + 1)

RECURSIVE SumFeeGot(_, _)
SumFeeGot(txs, i) == IF i > Len(txs) THEN 0 ELSE txs[i].feegot + SumFeeGot(txs, i + 1)

\* the places of a call in the calls of an apply
PlacesOf(calls, c) == { n \in 1..Len(calls) : calls[n] = c }

\* C22: in a block apply that returns nil the coinbase fields
\* TotalFeeUserPayed and TotalFeeMinerReceived are written once, after the
\* WriteInChainState of every transaction behind the coinbase and before the
\* WriteInChainState of the coinbase, and they are the sums of the fees and
\* of the fees the miner receives over the transactions behind the coinbase,
\* zero for a block that holds the coinbase only.
C22_CoinbaseFees ==
    \A block \in BlockInputs :
      LET r == Block_WriteInChainState(ChainState, block, NoFault)
          txs == block.Transactions
          written == PlacesOf(r.calls, <<"coinbase.TotalFee", 1>>)
      IN
      r.err = NoErr =>
        /\ r.st.coinbase.TotalFeeUserPayed = SumFee(txs, 2)
        /\ r.st.coinbase.TotalFeeMinerReceived = SumFeeGot(txs, 2)
        /\ Len(txs) = 1 => r.st.coinbase = [TotalFeeUserPayed |-> 0, TotalFeeMinerReceived |-> 0]
        /\ Cardinality(written) = 1
        /\ \A w \in written :
             /\ \A i \in 2..Len(txs) :
                  \E n \in PlacesOf(r.calls, <<"WriteInChainState", i>>) : n < w
             /\ PlacesOf(r.calls, <<"WriteInChainState", 1>>) = {w + 1}
             /\ Len(r.calls) = w + 1

\* the chain has taken in a block of MaxTxs - 1 transactions behind the
\* coinbase and its coinbase holds their fees; a next block in which a
\* part of a fee is burnt is accepted too
C22_Witness ==
    /\ chain_coinbase # Nil
    /\ chain_coinbase.TotalFeeUserPayed >= MaxTxs - 1
    /\ Len(chain_applied) >= MaxTxs - 1
    /\ \E block \in BlockInputs :
         LET r == Block_WriteInChainState(ChainState, block, NoFault) IN
         /\ block.height = chain_height + 1
         /\ r.err = NoErr
         /\ r.st.coinbase.TotalFeeUserPayed > r.st.coinbase.TotalFeeMinerReceived

\* --------------------------------------------------------------------- C23
\* position i of the block fails under fault f: its hash check, its hash
\* recording, its apply or the accumulation of its fees
FailsAt(block, i, f) ==
    \/ f # NoFault /\ f[2] = i
    \/ i \in Repeats(block) /\ block.height # GrandfatherHeight
    \/ block.Transactions[i].fails

\* the error position i fails with: the steps in the order of the loop
ErrorAt(block, i, f) ==
    IF f = <<"CheckTxHash", i>> THEN "CheckTxHash error"
    ELSE IF i \in Repeats(block) /\ block.height # GrandfatherHeight THEN ErrTxExist
    ELSE IF f = <<"ContainTxHash", i>> THEN "ContainTxHash error"
    ELSE IF block.Transactions[i].fails THEN ErrTx
    ELSE "amount error"

\* C23: a block apply calls the transactions behind the coinbase in index
\* order and the coinbase last.  It stops at the first transaction whose
\* hash check, hash recording, apply or fee accumulation fails and returns
\* that error: no later transaction and no coinbase is called and the
\* coinbase fee fields are not written.
C23_InOrderStopAtFirstFailure ==
    \A block \in BlockInputs, f \in BlockFaults :
      LET r == Block_WriteInChainState(ChainState, block, f)
          n == Len(block.Transactions)
          failing == { i \in 2..n : FailsAt(block, i, f) }
      IN
      /\ \A p \in 1..Len(r.run) :
           r.run[p] = IF p = n /\ n >= 1 THEN 1 ELSE p + 1
      /\ failing = {} /\ r.err = NoErr =>
           r.run = [p \in 1..n |-> IF p = n THEN 1 ELSE p + 1]
      /\ failing # {} =>
           LET k == CHOOSE i \in failing : \A j \in failing : i <= j IN
           /\ r.err = ErrorAt(block, k, f)
           /\ \A p \in 1..Len(r.run) : r.run[p] >= 2 /\ r.run[p] <= k
           /\ \A p \in 1..Len(r.calls) : r.calls[p][2] \in 2..k
           /\ r.st.coinbase = chain_coinbase

\* the chain has taken in a block with fees, and a next block whose second
\* transaction fails is refused with that error after the second
\* transaction: the third and the coinbase are not called and the coinbase
\* fields are the ones of the block before
C23_Witness ==
    /\ chain_coinbase # Nil
    /\ chain_coinbase.TotalFeeUserPayed > 0
    /\ \E block \in BlockInputs :
         LET r == Block_WriteInChainState(ChainState, block, NoFault) IN
         /\ block.height = chain_height + 1
         /\ Len(block.Transactions) = 3
         /\ block.Transactions[2].fails
         /\ ~block.Transactions[3].fails
         /\ block.Transactions[3].hash # block.Transactions[2].hash
         /\ chain_tx_hash[block.Transactions[3].hash] = 0
         /\ r.err = ErrTx
         /\ r.run = << 2 >>
         /\ r.st.coinbase = chain_coinbase

\* --------------------------------------------------------------------- C30
\* the diamonds in mortgage
Mortgaged == { d \in Diamond : diamond[d] # Nil /\ diamond[d].Status = DiamondStatusLendingSystem }

\* C30: a diamond in mortgage is not transferred: while its status is
\* LendingSystem, an Action 5 or Action 6 apply that returns nil leaves its
\* address as it is.
C30_MortgagedNotTransferred ==
    /\ \A d \in Diamond, to \in Address, main \in Address :
         LET r == A5_WriteinChainState(State, [Diamond |-> d, Address |-> to], main, NoFault)
         IN r.err = NoErr =>
              \A m \in Mortgaged : r.st.diamond[m].Address = diamond[m].Address
    /\ \A act \in A6Inputs :
         LET r == A6_WriteinChainState(State, act, NoFault)
         IN r.err = NoErr =>
              \A m \in Mortgaged : r.st.diamond[m].Address = diamond[m].Address

\* --------------------------------------------------------------------- C29
\* the calls of an apply with the transactions' method named as in the
\* interfaces entry point
Protocol(calls) ==
    [n \in 1..Len(calls) |->
        IF calls[n][1] = "WriteinChainState" THEN <<"WriteInChainState", calls[n][2]>>
        ELSE calls[n]]

\* C29: WriteInChainState (interfaces) and WriteinChainState (interfacev2) of
\* a block are one protocol: on the same block, from the same chain state
\* and with the same call failing, they make the same calls in the same
\* order, return the same error or nil, and leave the same block state and
\* the same coinbase fee fields.
C29_SameProtocol ==
    \A block \in BlockInputs, f \in BlockFaults :
      LET r1 == Block_WriteInChainState(ChainState, block, f)
          r2 == Block_WriteinChainState(ChainState, block, f)
      IN
      /\ r1.err = r2.err
      /\ Protocol(r1.calls) = Protocol(r2.calls)
      /\ r1.st.coinbase = r2.st.coinbase
      /\ r1.st = r2.st

\* the next block is the one of height 63448; a block that holds one
\* transaction twice is taken by both entry points with the same calls,
\* and the same block one height later is refused by both
C29_Witness ==
    /\ chain_height + 1 = GrandfatherHeight
    /\ chain_applied # << >>
    /\ \E block \in BlockInputs :
         LET r1 == Block_WriteInChainState(ChainState, block, NoFault)
             r2 == Block_WriteinChainState(ChainState, block, NoFault)
             later == [block EXCEPT !.height = GrandfatherHeight + 1]
         IN
         /\ block.height = GrandfatherHeight
         /\ Len(block.Transactions) = 3
         /\ block.Transactions[2].hash = block.Transactions[3].hash
         /\ r1.err = NoErr /\ r2.err = NoErr
         /\ Len(r2.calls) = 8
         /\ Block_WriteInChainState(ChainState, later, NoFault).err = ErrTxExist
         /\ Block_WriteinChainState(ChainState, later, NoFault).err = ErrTxExist

\* ------------------------------------------------------------------- C24
\* the block's fields, the cached hash apart
Fields(block) == [block EXCEPT !.hash = Nil]

\* what one call that writes a head or meta field makes of the block
HeadMetaMutations(block) ==
    { SetMrklRoot(block, root) : root \in 0..MaxRoot }
      \cup { SetNonce(block, n) : n \in 0..MaxNonce }
      \cup { SetNonceByte(block, Encode(n, VarUint4Size)) : n \in 0..MaxNonce }
      \cup { AddTransaction(block, trs) : trs \in Trs }
      \cup { AddTrs(block, trs) : trs \in Trs }

\* what one call that replaces the transaction list makes of the block
ListMutations(block) ==
    { SetTrsList(block, trslist) : trslist \in TrsLists }
      \cup ({ SetTransactions(block, trslist) : trslist \in TrsLists } \ {Panic})

\* Hash() called again with nothing in between returns the same value and
\* computes nothing; the first call computes exactly when nothing is cached
HashRepeats(block) ==
    LET h1 == Hash(block)
        h2 == Hash(h1.block)
    IN /\ h2.ret = h1.ret
       /\ h2.computed = 0
       /\ h2.block = h1.block
       /\ h1.computed = 1 <=> block.hash = Nil

C25_HashIsCurrent == Hash(block_v1).ret = CalculateBlockHash(block_v1)

\* ------------------------------------------------------------------- C27
\* Serialize and Size return, Parse of the bytes into a new block (the
\* version byte read by the caller) gives the block's fields back with the
\* offset at the end of the bytes, and Size is the number of bytes
RoundTrip(block) ==
    LET s  == Serialize(block)
        sz == Size(block)
        p  == Parse(NewEmptyBlockV1(0), s.bytes, 1)
    IN /\ ~s.panic
       /\ ~sz.panic
       /\ p.err = NoErr
       /\ Fields(p.block) = Fields(block)
       /\ p.seek = Len(s.bytes)
       /\ sz.size = Len(s.bytes)

\* the list holds TransactionCount transactions, none of them nil
CountIsLen(block) ==
    /\ block.TransactionCount = Len(block.Transactions)
    /\ \A i \in 1..Len(block.Transactions) : block.Transactions[i] # Nil

\* C27: for every block reached through NewEmptyBlockV1, AddTransaction,
\* AddTrs, SetTrsList and SetTransactions, parsing the bytes of Serialize()
\* gives an equal block with the offset at the end of the buffer, and Size()
\* is the length of Serialize().
C27_RoundTripAndSize == built_only => RoundTrip(block_v1)

\* the round trip of the blocks whose list holds TransactionCount transactions
RoundTripWhereCountIsLen == CountIsLen(block_v1) => RoundTrip(block_v1)

\* ------------------------------------------------------------------- C28
\* C28: Parse of a Block_v1 and of actions 4, 5, 6, 15 and 16 on a buffer
\* that ends before the last field returns an error, not a partly filled
\* value with a nil error.
C28_ShortBufferIsError == parsed # Nil /\ parsed.short => parsed.err # NoErr

\* the parsers that hand the error of a field on
C28_CheckedParsers ==
    parsed # Nil /\ parsed.kind \in {0, 15, 16} /\ parsed.short => parsed.err # NoErr

\* ------------------------------------------------------------------- C26
\* the statements between Lock() and the deferred Unlock()
CriticalPcs == {"Hash_if", "Hash_set", "Hash_return", "HashFresh_set", "HashFresh_return"}

\* no write of Fresh is in flight while a goroutine is inside the critical
\* section of Hash or HashFresh
FreshExcluded ==
    \A t \in Threads, u \in Threads :
        ~ (pc[t] = "Fresh_write" /\ pc[u] \in CriticalPcs /\ InCritical(u))

\* a Hash() that arrives while another Hash() is reading a cached value is
\* let in
ReadersParallel ==
    \A t \in Threads, u \in Threads :
        /\ t # u
        /\ block_v1.hash # Nil
        /\ pc[u] \in {"Hash_if", "Hash_return"}
        /\ pc[t] = "Hash_Lock"
        => ENABLED Hash_Lock(t)

\* C26: the hash cache is guarded by the block's reader-writer lock: a
\* Fresh() that invalidates the cached hash never runs concurrently with the
\* critical section of Hash() or HashFresh(), and concurrent Hash() readers
\* that find a cached value proceed in parallel with one another.
C26_LockGuardsCache == FreshExcluded /\ ReadersParallel

\* the critical sections of Hash and HashFresh exclude one another
HashExclusive ==
    \A t \in Threads, u \in Threads :
        pc[t] \in CriticalPcs /\ pc[u] \in CriticalPcs => t = u /\ insertLock = t

\* ------------------------------------------------------------------- C31
\* the state and block-store calls the revert of history entry e makes when
\* every call before them has succeeded
RevertCalls(e) ==
    CASE e.kind = 4  -> { <<"DiamondDel", 1>>, <<"ReadDiamondByNumber", 1>>,
                          <<"SetLastestDiamond", 1>> }
      [] e.kind = 5  -> { <<"DiamondSet", 1>> }
      [] e.kind = 6  -> { <<"DiamondSet", i>> : i \in 1..Len(e.act.Diamonds) }
      [] e.kind = 15 -> { <<"DiamondSet", i>> : i \in 1..Len(e.act.MortgageDiamondList.Diamonds) }
                        \cup { <<"UpdateSetTotalSupply", 1>> }
      [] e.kind = 16 -> { <<"DiamondLendingDelete", 1>>, <<"UpdateSetTotalSupply", 1>> }
                        \cup { <<"DiamondSet", i>> :
                                 i \in 1..Len(ListOf(State.diamond_lending[e.act.LendingID])) }

\* the revert of the action applied last returns an error when one of its
\* store calls fails
RevertReportsFailure(faults) ==
    history # << >> /\ Recover(Top, NoFault).err = NoErr =>
        \A fault \in RevertCalls(Top) \cap faults : Recover(Top, fault).err # NoErr

\* the transfer of the first i - 1 diamonds of an Action 6
TransferPrefix(act, i) ==
    A6_TransferLoop(State, [act EXCEPT !.Diamonds = SubSeq(act.Diamonds, 1, i - 1)], 1, NoFault).st

\* an Action 6 whose i-th DiamondSet fails returns an error and has written
\* the diamonds before the i-th only
A6ReportsFailure ==
    \A act \in A6Inputs :
        A6_WriteinChainState(State, act, NoFault).err = NoErr =>
            \A i \in 1..Len(act.Diamonds) :
                LET r == A6_WriteinChainState(State, act, <<"DiamondSet", i>>) IN
                /\ r.err # NoErr
                /\ r.st = TransferPrefix(act, i)

\* an Action 15 returns an error when one of its store calls fails
A15ReportsFailure(faults) ==
    \A act \in A15Acts, feeAddr \in Address :
        A15_WriteinChainState(State, act, feeAddr, pending_height,
                              development_mark, NoFault).err = NoErr =>
            \A fault \in faults \ {NoFault} :
                fault[2] <= Len(act.MortgageDiamondList.Diamonds) =>
                    A15_WriteinChainState(State, act, feeAddr, pending_height,
                                          development_mark, fault).err # NoErr

\* C31: whenever a state or block-store call made during apply or revert of
\* actions 4, 5, 6, 15 or 16 returns an error, the action returns a non-nil
\* error and performs no further state writes.
C31_NoSwallowedError ==
    /\ RevertReportsFailure(RecoverFaults)
    /\ A6ReportsFailure
    /\ A15ReportsFailure(A15Faults)

\* the four places that lose the error, each on its own
C31_A4RevertReadDiamondByNumber == RevertReportsFailure({ <<"ReadDiamondByNumber", 1>> })
C31_A16RevertLendingDelete == RevertReportsFailure({ <<"DiamondLendingDelete", 1>> })
C31_A15ReadDiamond == A15ReportsFailure({ <<"ReadDiamond", i>> : i \in 1..MaxList })

\* every other failing store call of a revert or of an Action 15 is reported
OtherFailuresReported ==
    /\ RevertReportsFailure(RecoverFaults \ RecoverSilentFaults)
    /\ A15ReportsFailure(A15Faults \ A15SilentFaults)

\* ------------------------------------------------------------------- C32
\* Block_v1.GetTransactionCount
GetTransactionCount(block) == block.TransactionCount

\* the transactions Serialize writes and the transactions Size counts
SerializedTrs(block) == Len(SerializeTransactions(block).bytes) \div TrsSize
SizedTrs(block) == (Size(block).size - Len(SerializeExcludeTransactions(block))) \div TrsSize

\* C32: after any sequence of NewEmptyBlockV1, AddTransaction, AddTrs,
\* SetTrsList, SetTransactions and successful Parse calls TransactionCount is
\* len(Transactions), so that Size(), GetTransactionCount() and Serialize()
\* agree on the number of transactions.
C32_CountFollowsList ==
    built_only =>
      /\ block_v1.TransactionCount = Len(block_v1.Transactions)
      /\ ~ Size(block_v1).panic
      /\ ~ Serialize(block_v1).panic
      /\ SizedTrs(block_v1) = GetTransactionCount(block_v1)
      /\ SerializedTrs(block_v1) = GetTransactionCount(block_v1)

\* AddTransaction, AddTrs and a successful Parse keep the count on the list
CountKeptByAddAndParse ==
    CountIsLen(block_v1) =>
      /\ \A trs \in Trs : CountIsLen(AddTransaction(block_v1, trs)) /\ CountIsLen(AddTrs(block_v1, trs))
      /\ \A buf \in ParseBufs :
            LET p == Parse(block_v1, buf, 1) IN p.err = NoErr => CountIsLen(p.block)

\* ------------------------------------------------------------------- C33
\* SetTransactions leaves the block with the elements of the list, in order
SetsExactly(block, trslist) ==
    /\ SetTransactions(block, trslist) # Panic
    /\ SetTransactions(block, trslist).Transactions = trslist

\* the copy CopyForMining is to return: head and meta of the block, a copy
\* of its coinbase and its other transactions
CopyOf(block) ==
    [CopyHeadMetaForMining(block) EXCEPT
        !.Transactions = << TrsCopy(block.Transactions[1]) >> \o Tail(block.Transactions)]

\* C33: SetTransactions(list) replaces the transaction list with exactly the
\* elements of list in order, for a list of any length; so CopyForMining on a
\* block with n >= 1 transactions returns, without panicking, a block with
\* the same head and meta and the n transactions, the first a copy of the
\* coinbase.
C33_SetTransactionsAndCopy ==
    /\ \A trslist \in TrsLists : SetsExactly(block_v1, trslist)
    /\ Len(block_v1.Transactions) >= 1 /\ GetTransactions(block_v1) # Panic =>
          /\ CopyForMining(block_v1) # Panic
          /\ CopyForMining(block_v1) = CopyOf(block_v1)

\* SetTransactions replaces the list exactly when the new list is as long
\* as the one the block holds, and CopyForMining returns exactly for a block
\* without transactions
SetsSameLengthOnly ==
    /\ \A trslist \in TrsLists :
          SetsExactly(block_v1, trslist) <=> Len(trslist) = Len(block_v1.Transactions)
    /\ CopyForMining(block_v1) # Panic <=> block_v1.Transactions = << >>

====
